---- MODULE Spec2Model ----
(***************************************************************************)
(* The Assembly governance contract (contracts/assembly/src/contract.rs):  *)
(* the proposal table, the proposal counter and the config singleton, and  *)
(* one action per execute handler.  A handler that returns an error leaves *)
(* the contract's storage as it was (the host reverts the transaction), so *)
(* every handler is a state function returning [err, st, msgs] and the     *)
(* action commits st only when err = "Ok".                                 *)
(***************************************************************************)
EXTENDS Integers, Sequences, FiniteSets, TLC

VARIABLES
    config,          \* CONFIG: the Config singleton
    proposals,       \* PROPOSALS: proposal id -> Proposal
    proposal_count,  \* PROPOSAL_COUNT
    height,          \* env.block.height
    xastro,          \* the xASTRO ledger: its checkpoints, one per block with a change
    allocations,     \* the vesting (builder unlock) ledger: account -> allocation
    down,            \* the external contracts whose queries fail now
    resp,            \* the Response of the last committed transaction
    expired_seen     \* history: ids on which an Execute was rejected as expired

vars ==
    <<config, proposals, proposal_count, height, xastro, allocations, down, resp, expired_seen>>

----------------------------------------------------------------------------
(* Bounds of the model *)

MaxHeight == 6
MaxProposals == 1
\* the longest list of messages and the largest order key of the message scenario
MaxMessages == 3
MaxOrder == 2
\* the most checkpoints the xASTRO ledger takes after the first
MaxMints == 1
\* Decimal is a fixed-point number; the model keeps DecimalFractional parts
\* of one instead of 10^18.
DecimalFractional == 4

----------------------------------------------------------------------------
(* Option<T> *)

None == <<>>
Some(v) == <<v>>
IsSome(o) == o # <<>>
Unwrap(o) == o[1]

(* Vec helpers *)
Contains(v, x) == \E i \in 1..Len(v) : v[i] = x
\* Vec::retain(|x| !removed.contains(x))
RetainNotIn(v, removed) == SelectSeq(v, LAMBDA x : ~Contains(removed, x))

----------------------------------------------------------------------------
(* Accounts and contracts *)

Users == {"alice", "bob", "carol"}
XastroToken == "xastro"
VxastroToken == "vxastro"
BuilderUnlock == "builder_unlock"
Assembly == "assembly"
Controller == "controller"
OtherController == "controller2"
\* every account that can be info.sender of a transaction sent from outside
Senders == Users \cup {XastroToken, Controller, OtherController}

----------------------------------------------------------------------------
(* ProposalStatus, ProposalVoteOption *)

ProposalStatus == {"Active", "Passed", "Rejected", "InProgress", "Executed", "Failed", "Expired"}
ProposalVoteOption == {"For", "Against"}

----------------------------------------------------------------------------
(* Decimal *)

\* Decimal::from_ratio(n, d): the quotient rounded down to the fixed point
DecimalFromRatio(n, d) == (n * DecimalFractional) \div d
DecimalZero == 0
DecimalOne == DecimalFractional

----------------------------------------------------------------------------
(* Uint128: checked arithmetic.  The model keeps the width small. *)

Uint128Max == 15
UintOk(v) == [err |-> "Ok", val |-> v]
UintErr == [err |-> "Overflow", val |-> 0]
\* the sum wraps around at the width
WrappingAdd(a, b) == UintOk((a + b) % (Uint128Max + 1))
CheckedAdd(a, b) == IF a + b > Uint128Max THEN UintErr ELSE UintOk(a + b)
CheckedSub(a, b) == IF a < b THEN UintErr ELSE UintOk(a - b)

----------------------------------------------------------------------------
(* External ledgers, as the contract queries them *)

BlockTime(h) == 6 * h
\* the block whose ledgers answer a query about the time t
BlockOfTime(t) == t \div 6

\* deps.querier.query_wasm_smart(contract, msg)?: the answer, or an error when
\* the contract does not answer
Query(contract, answer) ==
    IF contract \in down THEN [err |-> "QueryFailed", val |-> answer]
    ELSE [err |-> "Ok", val |-> answer]

\* xASTRO balances; `other` is the supply held by accounts that never vote
\* (the deposits held by the Assembly, the tokens locked in the escrow).
FundedXastro == [balances |-> [alice |-> 1, bob |-> 1, carol |-> 1], other |-> 2]
\* a ledger on which nothing was minted yet
EmptyXastro == [balances |-> [alice |-> 0, bob |-> 0, carol |-> 0], other |-> 0]

RECURSIVE SumOver(_, _)
SumOver(f, S) ==
    IF S = {} THEN 0
    ELSE LET x == CHOOSE y \in S : TRUE IN f[x] + SumOver(f, S \ {x})

\* the xASTRO token keeps a checkpoint of its ledger for every block in which
\* the ledger changed: the ledger as that block left it
Checkpoint(block, ledger) == [block |-> block, ledger |-> ledger]
\* the ledger as the block `block` left it
LedgerAtEnd(block) ==
    LET past == {i \in 1..Len(xastro) : xastro[i].block <= block}
    IN  IF past = {} THEN EmptyXastro
        ELSE xastro[CHOOSE i \in past : \A j \in past : j <= i].ledger
Supply(ledger) == SumOver(ledger.balances, Users) + ledger.other

\* XAstroTokenQueryMsg::BalanceAt { address, block }: "BalanceAt will always
\* return the balance information in the previous block"
XastroBalanceAt(address, block) ==
    Query(XastroToken, LedgerAtEnd(block - 1).balances[address])
\* XAstroTokenQueryMsg::TotalSupplyAt { block }
XastroTotalSupplyAt(block) == Query(XastroToken, Supply(LedgerAtEnd(block)))

\* the voting escrow (vxASTRO) as the block h left it: carol locks 1 xASTRO in
\* block VxLockHeight, and her voting power decays in block VxDecayHeight
VxLockHeight == 2
VxDecayHeight == 3
Vxastro(h) ==
    [voting_power |-> [alice |-> 0, bob |-> 0, carol |-> IF h < VxDecayHeight THEN 2 ELSE 1],
     deposit |-> [alice |-> 0, bob |-> 0, carol |-> IF h < VxLockHeight THEN 0 ELSE 1]]
VxUserVotingPowerAt(user, time) ==
    Query(VxastroToken, Vxastro(BlockOfTime(time)).voting_power[user])
VxUserDepositAtHeight(user, h) == Query(VxastroToken, Vxastro(h).deposit[user])
VxTotalVotingPowerAt(time) ==
    Query(VxastroToken, SumOver(Vxastro(BlockOfTime(time)).voting_power, Users))

\* BuilderUnlockQueryMsg::Allocation { account }: AllocationResponse
NoAllocation == [amount |-> 0, astro_withdrawn |-> 0]
FundedAllocations == [a \in Users |-> IF a = "carol" THEN [amount |-> 2, astro_withdrawn |-> 0]
                                      ELSE NoAllocation]
EmptyAllocations == [a \in Users |-> NoAllocation]
BuilderAllocation(account) == Query(BuilderUnlock, allocations[account])
\* BuilderUnlockQueryMsg::State {}: StateResponse.remaining_astro_tokens
BuilderRemaining ==
    Query(BuilderUnlock,
          SumOver([a \in Users |-> allocations[a].amount - allocations[a].astro_withdrawn],
                  Users))

----------------------------------------------------------------------------
(* Voting-power aggregation *)

QueryErr(q) == [err |-> q.err, val |-> 0]

\* the balance is asked at the block before start_block
BlockBeforeStart(proposal) == proposal.start_block - 1

\* BalanceAt { block: proposal.start_block }
BalanceAtBlock(proposal) == proposal.start_block

\* the supply is asked at start_block
SupplyAtStart(proposal) == proposal.start_block

\* TotalSupplyAt { block: proposal.start_block - 1 }
TotalSupplyAtBlock(proposal) == proposal.start_block - 1

calc_voting_power(cfg, sender, proposal) ==
    LET xastro_amount == XastroBalanceAt(sender, BalanceAtBlock(proposal))
        locked_amount == BuilderAllocation(sender)
        t1 == IF locked_amount.val.amount # 0
              THEN LET a == CheckedAdd(xastro_amount.val, locked_amount.val.amount)
                   IN IF a.err # "Ok" THEN a
                      ELSE CheckedSub(a.val, locked_amount.val.astro_withdrawn)
              ELSE UintOk(xastro_amount.val)
        vxastro_amount == VxUserVotingPowerAt(sender, proposal.start_time - 1)
        t2 == IF vxastro_amount.val # 0 THEN CheckedAdd(t1.val, vxastro_amount.val) ELSE t1
        locked_xastro == VxUserDepositAtHeight(sender, proposal.start_block)
    IN  IF xastro_amount.err # "Ok" THEN QueryErr(xastro_amount)
        ELSE IF locked_amount.err # "Ok" THEN QueryErr(locked_amount)
        ELSE IF t1.err # "Ok" THEN t1
        ELSE IF ~IsSome(cfg.vxastro_token_addr) THEN t1
        ELSE IF vxastro_amount.err # "Ok" THEN QueryErr(vxastro_amount)
        ELSE IF t2.err # "Ok" THEN t2
        ELSE IF locked_xastro.err # "Ok" THEN QueryErr(locked_xastro)
        ELSE CheckedAdd(t2.val, locked_xastro.val)

calc_total_voting_power_at(cfg, proposal) ==
    LET total == XastroTotalSupplyAt(TotalSupplyAtBlock(proposal))
        builder_state == BuilderRemaining
        t1 == IF builder_state.val # 0 THEN CheckedAdd(total.val, builder_state.val)
              ELSE UintOk(total.val)
        vxastro == VxTotalVotingPowerAt(proposal.start_time - 1)
    IN  IF total.err # "Ok" THEN QueryErr(total)
        ELSE IF builder_state.err # "Ok" THEN QueryErr(builder_state)
        ELSE IF t1.err # "Ok" THEN t1
        ELSE IF ~IsSome(cfg.vxastro_token_addr) THEN t1
        ELSE IF vxastro.err # "Ok" THEN QueryErr(vxastro)
        ELSE IF vxastro.val # 0 THEN CheckedAdd(t1.val, vxastro.val) ELSE t1

----------------------------------------------------------------------------
(* Config, UpdateConfig *)

ForumLink == "https://forum.astroport.fi/"
DocsLink == "https://docs.astroport.fi/"
EvilLink == "https://evil.example/"

\* helpers::validate_links and Proposal::validate are not part of the source
\* files at hand: a link is allowed when it starts with a whitelisted prefix.
LinkAllowed(link, whitelisted_links) ==
    \/ ~IsSome(link)
    \/ Contains(whitelisted_links, Unwrap(link).prefix)

\* Config::validate is not part of the source files at hand: the required
\* quorum and threshold are ratios in [0, 1].
ConfigValid(cfg) ==
    /\ cfg.proposal_required_quorum \in DecimalZero..DecimalOne
    /\ cfg.proposal_required_threshold \in DecimalZero..DecimalOne

NoUpdate ==
    [ibc_controller |-> None, builder_unlock_addr |-> None, proposal_voting_period |-> None,
     proposal_effective_delay |-> None, proposal_expiration_period |-> None,
     proposal_required_deposit |-> None, proposal_required_quorum |-> None,
     proposal_required_threshold |-> None, whitelist_add |-> None,
     whitelist_remove |-> None]

\* whitelist_add: the links not yet in the whitelist are appended, in order
RECURSIVE AppendNew(_, _)
AppendNew(whitelist, add) ==
    IF add = <<>> THEN <<>>
    ELSE (IF Contains(whitelist, Head(add)) THEN <<>> ELSE <<Head(add)>>)
         \o AppendNew(whitelist, Tail(add))

Ok(st, msgs) == [err |-> "Ok", st |-> st, msgs |-> msgs]
Err(e, st) == [err |-> e, st |-> st, msgs |-> <<>>]

\* nobody is refused
NobodyRefused(sender) == FALSE

\* info.sender != env.contract.address
NotSelf(sender) == sender # Assembly

\* the whitelist is never found empty
NeverEmptied(links) == FALSE

\* config.whitelisted_links.is_empty()
WhitelistEmptied(links) == links = <<>>

\* a decimal string: the number units / scale, written with as many
\* fractional digits as the scale needs
DecimalString(units, scale) == [units |-> units, scale |-> scale]

\* Decimal::from_str: the number of the string, or an error when the string
\* has more fractional digits than the fixed point holds
DecimalFromStr(s) ==
    IF DecimalFractional % s.scale = 0
    THEN [err |-> "Ok", val |-> s.units * (DecimalFractional \div s.scale)]
    ELSE [err |-> "Std", val |-> 0]

update_config(st, sender, upd) ==
    LET c0 == st.config
        Set(c, f) == IF IsSome(upd[f]) THEN [c EXCEPT ![f] = Unwrap(upd[f])] ELSE c
        Parse(c, f) == IF IsSome(upd[f])
                       THEN [c EXCEPT ![f] = DecimalFromStr(Unwrap(upd[f])).val] ELSE c
        Parsed(f) == ~IsSome(upd[f]) \/ DecimalFromStr(Unwrap(upd[f])).err = "Ok"
        c1 == Set(IF IsSome(upd.ibc_controller)
                  THEN [c0 EXCEPT !.ibc_controller = Some(Unwrap(upd.ibc_controller))] ELSE c0,
                  "builder_unlock_addr")
        c2 == Set(c1, "proposal_voting_period")
        c3 == Set(c2, "proposal_effective_delay")
        c4 == Set(c3, "proposal_expiration_period")
        c5 == Set(c4, "proposal_required_deposit")
        c6 == Parse(c5, "proposal_required_quorum")
        c7 == Parse(c6, "proposal_required_threshold")
        c8 == IF IsSome(upd.whitelist_add)
              THEN [c7 EXCEPT !.whitelisted_links =
                        @ \o AppendNew(@, Unwrap(upd.whitelist_add))]
              ELSE c7
        c9 == IF IsSome(upd.whitelist_remove)
              THEN [c8 EXCEPT !.whitelisted_links =
                        RetainNotIn(@, Unwrap(upd.whitelist_remove))]
              ELSE c8
    IN  IF NotSelf(sender) THEN Err("Unauthorized", st)
        ELSE IF ~Parsed("proposal_required_quorum") THEN Err("Std", st)
        ELSE IF ~Parsed("proposal_required_threshold") THEN Err("Std", st)
        ELSE IF IsSome(upd.whitelist_remove) /\ WhitelistEmptied(c9.whitelisted_links)
        THEN Err("WhitelistEmpty", st)
        ELSE IF ~ConfigValid(c9) THEN Err("InvalidConfig", st)
        ELSE Ok([st EXCEPT !.config = c9], <<>>)

----------------------------------------------------------------------------
(* ProposalMessage, CosmosMsg *)

ExternMsg(tag) == [contract_addr |-> "treasury", msg |-> [kind |-> "Extern", tag |-> tag]]
UpdateConfigMsg(upd) == [contract_addr |-> Assembly, msg |-> [kind |-> "UpdateConfig", update |-> upd]]
ProposalMessage(order, msg) == [order |-> order, msg |-> msg]

\* a message is put before the messages of the same order
RECURSIVE InsertBeforeEqual(_, _)
InsertBeforeEqual(sorted, m) ==
    IF sorted = <<>> THEN <<m>>
    ELSE IF Head(sorted).order < m.order
         THEN <<Head(sorted)>> \o InsertBeforeEqual(Tail(sorted), m)
         ELSE <<m>> \o sorted

\* messages.sort_by(|a, b| a.order.cmp(&b.order)): a stable sort
RECURSIVE InsertByOrder(_, _)
InsertByOrder(sorted, m) ==
    IF sorted = <<>> THEN <<m>>
    ELSE IF Head(sorted).order <= m.order
         THEN <<Head(sorted)>> \o InsertByOrder(Tail(sorted), m)
         ELSE <<m>> \o sorted

RECURSIVE SortByOrder(_)
SortByOrder(messages) ==
    IF messages = <<>> THEN <<>>
    ELSE InsertByOrder(SortByOrder(SubSeq(messages, 1, Len(messages) - 1)),
                       messages[Len(messages)])

\* the last message is left out
MapMsgWithoutLast(messages) == [i \in 1..Len(messages) - 1 |-> messages[i].msg]

MapMsg(messages) == [i \in 1..Len(messages) |-> messages[i].msg]

----------------------------------------------------------------------------
(* The execute handlers.  st = [config, proposals, proposal_count] is the
   contract's storage; h is env.block.height; sender is info.sender. *)

Stored(st, id) == id \in DOMAIN st.proposals
Save(st, id, proposal) ==
    [st EXCEPT !.proposals = [i \in (DOMAIN @) \cup {id} |-> IF i = id THEN proposal ELSE @[i]]]
\* the proposal is kept, saved as Expired
SaveAsExpired(st, id) == Save(st, id, [st.proposals[id] EXCEPT !.status = "Expired"])

Remove(st, id) ==
    [st EXCEPT !.proposals = [i \in (DOMAIN @) \ {id} |-> @[i]]]

\* IbcQuery::ListChannels { port_id: "wasm.<controller>" }
ControllerChannels(ibc_controller) ==
    IF ibc_controller = Controller THEN <<"channel-1">> ELSE <<>>

check_controller_supports_channel(ibc_controller, given_channel) ==
    IF Contains(ControllerChannels(ibc_controller), given_channel)
    THEN "Ok" ELSE "InvalidChannel"

\* the next id is one more than the number of stored proposals
StoredPlusOne(st) == Cardinality(DOMAIN st.proposals) + 1

\* PROPOSAL_COUNT.update(|c| c.checked_add(1))
NextProposalId(st) == st.proposal_count + 1

\* a deposit equal to the required deposit is refused
DepositNotAbove(cfg, deposit_amount) == deposit_amount <= cfg.proposal_required_deposit

InsufficientDeposit(cfg, deposit_amount) == deposit_amount < cfg.proposal_required_deposit

\* the stored deposit is the deposit the config requires
NewProposalRequiredDeposit(cfg, h, count, submitter, deposit_amount, link, messages, ibc_channel) ==
    [proposal_id |-> count, submitter |-> submitter, status |-> "Active",
     for_power |-> 0, against_power |-> 0,
     for_voters |-> <<>>, against_voters |-> <<>>,
     start_block |-> h, start_time |-> BlockTime(h),
     end_block |-> h + cfg.proposal_voting_period,
     link |-> link, messages |-> messages,
     deposit_amount |-> cfg.proposal_required_deposit, ibc_channel |-> ibc_channel]

\* the voting period is the period of instantiation, whatever the config says
EndBlockFirstPeriod(cfg, h) == h + 1

\* end_block: env.block.height + config.proposal_voting_period
EndBlock(cfg, h) == h + cfg.proposal_voting_period

NewProposal(cfg, h, count, submitter, deposit_amount, link, messages, ibc_channel) ==
    [proposal_id |-> count, submitter |-> submitter, status |-> "Active",
     for_power |-> 0, against_power |-> 0,
     for_voters |-> <<>>, against_voters |-> <<>>,
     start_block |-> h, start_time |-> BlockTime(h),
     end_block |-> EndBlock(cfg, h),
     link |-> link, messages |-> messages,
     deposit_amount |-> deposit_amount, ibc_channel |-> ibc_channel]

\* On an error the handler returns the storage as it has written it so far:
\* the counter is written before the channel and the link are checked.
submit_proposal(st, h, sender, cw20_sender, deposit_amount, link, messages, ibc_channel) ==
    LET cfg == st.config
        count == NextProposalId(st)
        counted == [st EXCEPT !.proposal_count = count]
        channel_check ==
            IF IsSome(ibc_channel)
            THEN IF IsSome(cfg.ibc_controller)
                 THEN check_controller_supports_channel(Unwrap(cfg.ibc_controller),
                                                        Unwrap(ibc_channel))
                 ELSE "MissingIBCController"
            ELSE "Ok"
        proposal == NewProposal(cfg, h, count, cw20_sender, deposit_amount, link,
                                messages, ibc_channel)
    IN  IF sender # cfg.xastro_token_addr THEN Err("Unauthorized", st)
        ELSE IF InsufficientDeposit(cfg, deposit_amount)
        THEN Err("InsufficientDeposit", st)
        ELSE IF channel_check # "Ok" THEN Err(channel_check, counted)
        ELSE IF ~LinkAllowed(link, cfg.whitelisted_links) THEN Err("InvalidProposal", counted)
        ELSE Ok(Save(counted, count, proposal), <<>>)

\* the submitter check left out
NobodyIsSubmitter(proposal, sender) == FALSE

IsSubmitter(proposal, sender) == proposal.submitter = sender

\* the voter lists are not looked at
NobodyHasVoted(proposal, sender) == FALSE

\* the voter is looked up in one voter list only
AlreadyVotedFor(proposal, sender) == Contains(proposal.for_voters, sender)

AlreadyVoted(proposal, sender) ==
    Contains(proposal.for_voters, sender) \/ Contains(proposal.against_voters, sender)

\* a vote without voting power is taken
ZeroPowerAccepted(voting_power) == FALSE

\* voting_power.is_zero()
NoVotingPower(voting_power) == voting_power = 0

\* the voting period never ends
VotingNeverEnds(proposal, h) == FALSE

\* the last block of the voting period is closed
VotingEndedAtEndBlock(proposal, h) == h >= proposal.end_block

\* env.block.height > proposal.end_block
VotingPeriodEnded(proposal, h) == h > proposal.end_block

cast_vote(st, h, sender, proposal_id, vote_option) ==
    IF ~Stored(st, proposal_id) THEN Err("NotFound", st)
    ELSE
    LET proposal == st.proposals[proposal_id]
        voting_power == calc_voting_power(st.config, sender, proposal)
        sum == IF vote_option = "For"
               THEN CheckedAdd(proposal.for_power, voting_power.val)
               ELSE CheckedAdd(proposal.against_power, voting_power.val)
        voted == IF vote_option = "For"
                 THEN [proposal EXCEPT !.for_power = sum.val,
                                       !.for_voters = Append(@, sender)]
                 ELSE [proposal EXCEPT !.against_power = sum.val,
                                       !.against_voters = Append(@, sender)]
    IN  IF proposal.status # "Active" THEN Err("ProposalNotActive", st)
        ELSE IF IsSubmitter(proposal, sender) THEN Err("Unauthorized", st)
        ELSE IF VotingPeriodEnded(proposal, h) THEN Err("VotingPeriodEnded", st)
        ELSE IF AlreadyVoted(proposal, sender) THEN Err("UserAlreadyVoted", st)
        ELSE IF voting_power.err # "Ok" THEN Err(voting_power.err, st)
        ELSE IF NoVotingPower(voting_power.val) THEN Err("NoVotingPower", st)
        ELSE IF sum.err # "Ok" THEN Err(sum.err, st)
        ELSE Ok(Save(st, proposal_id, voted), <<>>)

\* Cw20ExecuteMsg::Transfer { recipient, amount } sent to the xASTRO token
TransferMsg(token, recipient, amount) ==
    [contract_addr |-> token,
     msg |-> [kind |-> "Transfer", recipient |-> recipient, amount |-> amount]]

\* the refund is the deposit the config requires now
RequiredDepositRefund(cfg, proposal) ==
    <<TransferMsg(cfg.xastro_token_addr, proposal.submitter, cfg.proposal_required_deposit)>>

\* the message that returns the deposit
DepositRefund(cfg, proposal) ==
    <<TransferMsg(cfg.xastro_token_addr, proposal.submitter, proposal.deposit_amount)>>

ProposalQuorum(total_votes, total_voting_power) ==
    IF total_voting_power # 0
    THEN DecimalFromRatio(total_votes, total_voting_power)
    ELSE DecimalZero

\* no votes count as full support
ThresholdOneWhenNoVotes(for_votes, total_votes) ==
    IF total_votes # 0 THEN DecimalFromRatio(for_votes, total_votes) ELSE DecimalOne

ProposalThreshold(for_votes, total_votes) ==
    IF total_votes # 0 THEN DecimalFromRatio(for_votes, total_votes) ELSE DecimalZero

\* the threshold compared with >= instead of >
ResultThresholdNotStrict(cfg, proposal_quorum, proposal_threshold) ==
    IF proposal_quorum >= cfg.proposal_required_quorum
       /\ proposal_threshold >= cfg.proposal_required_threshold
    THEN "Passed" ELSE "Rejected"

\* the proposal is left Active
ResultStaysActive(cfg, proposal_quorum, proposal_threshold) == "Active"

\* "Determine the proposal result"
ProposalResult(cfg, proposal_quorum, proposal_threshold) ==
    IF proposal_quorum >= cfg.proposal_required_quorum
       /\ proposal_threshold > cfg.proposal_required_threshold
    THEN "Passed" ELSE "Rejected"

\* End is open in the last block of the voting period
NotEndedBeforeEndBlock(proposal, h) == h < proposal.end_block

\* env.block.height <= proposal.end_block
VotingPeriodNotEnded(proposal, h) == h <= proposal.end_block

end_proposal(st, h, sender, proposal_id) ==
    IF ~Stored(st, proposal_id) THEN Err("NotFound", st)
    ELSE
    LET proposal == st.proposals[proposal_id]
        cfg == st.config
        for_votes == proposal.for_power
        against_votes == proposal.against_power
        \* Uint128 + Uint128 panics on overflow
        total_votes == CheckedAdd(for_votes, against_votes)
        total_voting_power == calc_total_voting_power_at(cfg, proposal)
        proposal_quorum == ProposalQuorum(total_votes.val, total_voting_power.val)
        proposal_threshold == ProposalThreshold(for_votes, total_votes.val)
        ended == [proposal EXCEPT !.status =
                      ProposalResult(cfg, proposal_quorum, proposal_threshold)]
    IN  IF proposal.status # "Active" THEN Err("ProposalNotActive", st)
        ELSE IF VotingPeriodNotEnded(proposal, h) THEN Err("VotingPeriodNotEnded", st)
        ELSE IF total_votes.err # "Ok" THEN Err(total_votes.err, st)
        ELSE IF total_voting_power.err # "Ok" THEN Err(total_voting_power.err, st)
        ELSE Ok(Save(st, proposal_id, ended), DepositRefund(cfg, proposal))

\* ibc_controller_package::ExecuteMsg::IbcExecuteProposal sent to the controller
IbcExecuteProposalMsg(ibc_controller, channel_id, proposal_id, messages) ==
    [contract_addr |-> ibc_controller,
     msg |-> [kind |-> "IbcExecuteProposal", channel_id |-> channel_id,
              proposal_id |-> proposal_id, messages |-> messages]]

DelayNotEnded(cfg, proposal, h) ==
    h < proposal.end_block + cfg.proposal_effective_delay

\* the last block of the window counted as expired
WindowExpiredAtBound(cfg, proposal, h) ==
    h >= proposal.end_block + cfg.proposal_effective_delay + cfg.proposal_expiration_period

WindowExpired(cfg, proposal, h) ==
    h > proposal.end_block + cfg.proposal_effective_delay + cfg.proposal_expiration_period

\* a proposal that was executed can be executed again
ExecutedNotRefused(proposal) == proposal.status \notin {"Passed", "Executed"}

\* proposal.status != ProposalStatus::Passed
NotPassed(proposal) == proposal.status # "Passed"

execute_proposal(st, h, sender, proposal_id) ==
    IF ~Stored(st, proposal_id) THEN Err("NotFound", st)
    ELSE
    LET proposal == st.proposals[proposal_id]
        cfg == st.config
        ibc_status == IF IsSome(proposal.messages) THEN "InProgress" ELSE "Executed"
    IN  IF NotPassed(proposal) THEN Err("ProposalNotPassed", st)
        ELSE IF DelayNotEnded(cfg, proposal, h) THEN Err("ProposalDelayNotEnded", st)
        ELSE IF WindowExpired(cfg, proposal, h) THEN Err("ExecuteProposalExpired", st)
        ELSE IF IsSome(proposal.ibc_channel)
        THEN IF IsSome(proposal.messages)
             THEN IF ~IsSome(cfg.ibc_controller) THEN Err("MissingIBCController", st)
                  ELSE Ok(Save(st, proposal_id, [proposal EXCEPT !.status = ibc_status]),
                          <<IbcExecuteProposalMsg(Unwrap(cfg.ibc_controller),
                                                  Unwrap(proposal.ibc_channel), proposal_id,
                                                  SortByOrder(Unwrap(proposal.messages)))>>)
             ELSE Ok(Save(st, proposal_id, [proposal EXCEPT !.status = ibc_status]), <<>>)
        ELSE Ok(Save(st, proposal_id, [proposal EXCEPT !.status = "Executed"]),
                IF IsSome(proposal.messages)
                THEN MapMsg(SortByOrder(Unwrap(proposal.messages)))
                ELSE <<>>)

\* ExecuteMsg::CheckMessagesPassed {} addressed to the Assembly itself
CheckMessagesPassedMsg ==
    [contract_addr |-> Assembly, msg |-> [kind |-> "CheckMessagesPassed"]]

\* the sentinel passes
check_messages_passed_ok(st, sender) == Ok(st, <<>>)

\* ExecuteMsg::CheckMessagesPassed {} => Err(ContractError::MessagesCheckPassed {})
check_messages_passed(st, sender) == Err("MessagesCheckPassed", st)

check_messages(st, messages) ==
    Ok(st, Append(MapMsg(SortByOrder(messages)), CheckMessagesPassedMsg))

remove_completed_proposal(st, h, sender, proposal_id) ==
    IF ~Stored(st, proposal_id) THEN Err("NotFound", st)
    ELSE
    LET cfg == st.config
        loaded == st.proposals[proposal_id]
        proposal == IF WindowExpired(cfg, loaded, h)
                    THEN [loaded EXCEPT !.status = "Expired"]
                    ELSE loaded
    IN  IF proposal.status # "Expired" /\ proposal.status # "Rejected"
        THEN Err("ProposalNotCompleted", st)
        ELSE Ok(Remove(st, proposal_id), <<>>)

\* any caller passes once a controller is configured
AnyCallerIsController(cfg, sender) == IsSome(cfg.ibc_controller)

IsController(cfg, sender) == Some(sender) = cfg.ibc_controller

\* the status check left out
AlwaysInProgress(proposal) == TRUE

\* the callback is taken for an executed proposal too
InProgressOrExecuted(proposal) == proposal.status \in {"InProgress", "Executed"}

IsInProgress(proposal) == proposal.status = "InProgress"

update_ibc_proposal_status(st, sender, id, new_status) ==
    IF IsController(st.config, sender)
    THEN IF ~Stored(st, id) THEN Err("NotFound", st)
         ELSE LET proposal == st.proposals[id]
              IN  IF ~IsInProgress(proposal) THEN Err("NotUpdatedProposalStatus", st)
                  ELSE IF new_status \in {"Executed", "Failed"}
                  THEN Ok(Save(st, id, [proposal EXCEPT !.status = new_status]), <<>>)
                  ELSE Err("InvalidIBCProposalStatus", st)
    ELSE Err("InvalidIBCController", st)

\* The host runs the messages of a Response in order, each with the Assembly as
\* info.sender; a message to the Assembly itself enters `execute`, and a
\* failing message fails the whole transaction.
RECURSIVE Dispatch(_, _)
Dispatch(st, msgs) ==
    IF msgs = <<>> THEN Ok(st, <<>>)
    ELSE LET m == Head(msgs)
             r == IF m.contract_addr = Assembly /\ m.msg.kind = "UpdateConfig"
                  THEN update_config(st, Assembly, m.msg.update)
                  ELSE IF m.contract_addr = Assembly /\ m.msg.kind = "CheckMessagesPassed"
                  THEN check_messages_passed(st, Assembly)
                  ELSE Ok(st, <<>>)
         IN  IF r.err # "Ok" THEN Err(r.err, st) ELSE Dispatch(r.st, Tail(msgs))

----------------------------------------------------------------------------
(* The queries *)

DEFAULT_LIMIT == 10
MAX_LIMIT == 30

\* the limit is not capped
PageLimitUncapped(limit) == IF IsSome(limit) THEN Unwrap(limit) ELSE DEFAULT_LIMIT

\* limit.unwrap_or(DEFAULT_LIMIT).min(MAX_LIMIT)
PageLimit(limit) ==
    LET asked == IF IsSome(limit) THEN Unwrap(limit) ELSE DEFAULT_LIMIT
    IN  IF asked <= MAX_LIMIT THEN asked ELSE MAX_LIMIT

\* PROPOSALS.range(start, None, Order::Ascending).take(n): start is inclusive
RangeTake(table, start, n) ==
    LET keys == {id \in DOMAIN table : ~IsSome(start) \/ id >= Unwrap(start)}
        taken == IF Cardinality(keys) <= n THEN Cardinality(keys) ELSE n
        Nth(i) == CHOOSE id \in keys : Cardinality({k \in keys : k < id}) = i - 1
    IN  [i \in 1..taken |-> table[Nth(i)]]

query_proposals(st, start, limit) ==
    [proposal_count |-> st.proposal_count,
     proposal_list |-> RangeTake(st.proposals, start, PageLimit(limit))]

\* PROPOSALS.load(deps.storage, proposal_id)
query_proposal(st, proposal_id) ==
    IF Stored(st, proposal_id)
    THEN [err |-> "Ok", val |-> st.proposals[proposal_id]]
    ELSE [err |-> "NotFound", val |-> None]

----------------------------------------------------------------------------
(* Inputs of the model *)

GoodLink == Some([prefix |-> ForumLink, rest |-> "t/1"])
BadLink == Some([prefix |-> EvilLink, rest |-> "t/1"])

LongerWindow ==
    [NoUpdate EXCEPT !.proposal_expiration_period = Some(3),
                     !.proposal_required_deposit = Some(2),
                     !.proposal_voting_period = Some(2)]
NewController ==
    [NoUpdate EXCEPT !.ibc_controller = Some(OtherController),
                     !.proposal_voting_period = Some(2)]
\* the whitelist becomes <<DocsLink>>
SwapWhitelist ==
    [NoUpdate EXCEPT !.whitelist_add = Some(<<DocsLink>>),
                     !.whitelist_remove = Some(<<ForumLink>>)]
\* the only link is removed, and the voting period changed
DropWhitelist ==
    [NoUpdate EXCEPT !.whitelist_remove = Some(<<ForumLink>>),
                     !.proposal_voting_period = Some(2)]
\* a link is added and every link removed, and the expiration period changed
AddThenDropAll ==
    [NoUpdate EXCEPT !.whitelist_add = Some(<<DocsLink>>),
                     !.whitelist_remove = Some(<<DocsLink, ForumLink>>),
                     !.proposal_expiration_period = Some(3)]
WhitelistUpdates == {SwapWhitelist, DropWhitelist, AddThenDropAll}
\* the same new link is given twice
AddTwice == [NoUpdate EXCEPT !.whitelist_add = Some(<<DocsLink, DocsLink>>)]
\* updates of one field each, and of the whitelist
FieldUpdates ==
    {[NoUpdate EXCEPT ![f] = Some(2)] :
        f \in {"proposal_voting_period", "proposal_effective_delay",
               "proposal_expiration_period", "proposal_required_deposit"}}
    \cup {[NoUpdate EXCEPT ![f] = Some(s)] :
            f \in {"proposal_required_quorum", "proposal_required_threshold"},
            s \in {DecimalString(1, 2), DecimalString(1, 1), DecimalString(3, 2),
                   DecimalString(1, 8)}}
    \cup {[NoUpdate EXCEPT !.builder_unlock_addr = Some("builder_unlock2")],
          [NoUpdate EXCEPT !.ibc_controller = Some(OtherController)],
          [NoUpdate EXCEPT !.whitelist_add = Some(<<ForumLink, DocsLink>>)],
          [NoUpdate EXCEPT !.whitelist_add = Some(<<DocsLink, EvilLink>>),
                           !.whitelist_remove = Some(<<EvilLink>>)],
          AddTwice}
UpdateOptions == {LongerWindow, NewController, AddTwice} \cup WhitelistUpdates

ThreeMessages ==
    <<ProposalMessage(2, ExternMsg("a")), ProposalMessage(1, ExternMsg("b")),
      ProposalMessage(1, ExternMsg("c"))>>

SubmitInput(deposit_amount, link, messages, ibc_channel) ==
    [deposit_amount |-> deposit_amount, link |-> link, messages |-> messages,
     ibc_channel |-> ibc_channel]

SubmitInputs ==
    {SubmitInput(1, GoodLink, None, None),
     SubmitInput(2, GoodLink, Some(ThreeMessages), None),
     SubmitInput(1, GoodLink, Some(ThreeMessages), Some("channel-1")),
     SubmitInput(2, None, None, Some("channel-1")),
     SubmitInput(0, GoodLink, None, None),
     SubmitInput(1, BadLink, None, None),
     SubmitInput(1, GoodLink, None, Some("channel-9"))}
    \cup {SubmitInput(1, GoodLink, Some(<<ProposalMessage(1, UpdateConfigMsg(u))>>), None) :
            u \in UpdateOptions}

GovInputs ==
    {SubmitInput(2, GoodLink, None, None),
     SubmitInput(1, GoodLink, Some(<<ProposalMessage(1, UpdateConfigMsg(LongerWindow))>>), None),
     SubmitInput(0, GoodLink, None, None)}

\* every list of at most MaxMessages messages with order keys up to MaxOrder;
\* the message at position i of the list is tagged i
MessageLists ==
    UNION {{[i \in 1..n |-> ProposalMessage(o[i], ExternMsg(ToString(i)))] :
               o \in [1..n -> 1..MaxOrder]} : n \in 0..MaxMessages}

MsgInputs ==
    {SubmitInput(1, GoodLink, Some(l), ch) : l \in MessageLists, ch \in {None, Some("channel-1")}}

Submitters == {"alice"}
\* end_proposal, execute_proposal and remove_completed_proposal do not read
\* info.sender: one caller stands for all
AnyCaller == "bob"

----------------------------------------------------------------------------
(* The state machine *)

Storage == [config |-> config, proposals |-> proposals, proposal_count |-> proposal_count]

Commit(st) ==
    /\ config' = st.config
    /\ proposals' = st.proposals
    /\ proposal_count' = st.proposal_count

Response(op, sender, proposal_id, messages) ==
    [op |-> op, sender |-> sender, proposal_id |-> proposal_id, messages |-> messages]
NoResponse == Response("none", "none", 0, <<>>)

InitConfig(vx, ic, dep, q, t) ==
    [xastro_token_addr |-> XastroToken, vxastro_token_addr |-> vx, ibc_controller |-> ic,
     builder_unlock_addr |-> BuilderUnlock,
     proposal_voting_period |-> 1, proposal_effective_delay |-> 2,
     proposal_expiration_period |-> 1, proposal_required_deposit |-> dep,
     proposal_required_quorum |-> q, proposal_required_threshold |-> t,
     whitelisted_links |-> <<ForumLink>>]

InstantiateMsg(vx, ic, dep, q, t, links) ==
    [vxastro_token_addr |-> vx, ibc_controller |-> ic, proposal_required_deposit |-> dep,
     proposal_required_quorum |-> q, proposal_required_threshold |-> t,
     whitelisted_links |-> links]

\* the storage before the contract is instantiated
NoStorage == [config |-> None, proposals |-> <<>>, proposal_count |-> 0]

instantiate(msg) ==
    IF msg.whitelisted_links = <<>> THEN Err("WhitelistEmpty", NoStorage)
    ELSE LET cfg == [InitConfig(msg.vxastro_token_addr, msg.ibc_controller,
                                msg.proposal_required_deposit, msg.proposal_required_quorum,
                                msg.proposal_required_threshold)
                         EXCEPT !.whitelisted_links = msg.whitelisted_links]
         IN  IF ~ConfigValid(cfg) THEN Err("InvalidConfig", NoStorage)
             ELSE Ok([config |-> cfg, proposals |-> <<>>, proposal_count |-> 0], <<>>)

Scenario(msg, x, a) == [msg |-> msg, xastro |-> x, allocations |-> a]

Scenarios ==
    {Scenario(InstantiateMsg(None, Some(Controller), 1, 1, 2, <<ForumLink>>),
              FundedXastro, FundedAllocations),
     Scenario(InstantiateMsg(Some(VxastroToken), None, 1, 0, 0, <<ForumLink>>),
              FundedXastro, FundedAllocations),
     Scenario(InstantiateMsg(None, None, 0, 0, 0, <<ForumLink>>),
              EmptyXastro, EmptyAllocations),
     Scenario(InstantiateMsg(None, None, 1, 1, 2, <<>>),
              FundedXastro, FundedAllocations)}

\* the contract exists once its instantiation has succeeded
Init ==
    /\ \E sc \in Scenarios :
         /\ instantiate(sc.msg).err = "Ok"
         /\ config = instantiate(sc.msg).st.config
         /\ proposals = instantiate(sc.msg).st.proposals
         /\ proposal_count = instantiate(sc.msg).st.proposal_count
         /\ xastro = <<Checkpoint(0, sc.xastro)>>
         /\ allocations = sc.allocations
    /\ down = {}
    /\ height = 1
    /\ resp = NoResponse
    /\ expired_seen = {}

\* a transaction that fails is reverted: nothing changes
Reverted == UNCHANGED vars

\* the writes of a failed handler are kept
ApplyKeepingWrites(r, op, sender, proposal_id) ==
    /\ Commit(r.st)
    /\ resp' = IF r.err = "Ok" THEN Response(op, sender, proposal_id, r.msgs) ELSE resp
    /\ UNCHANGED <<height, xastro, allocations, down, expired_seen>>

Apply(r, op, sender, proposal_id) ==
    IF r.err = "Ok"
    THEN /\ Commit(r.st)
         /\ resp' = Response(op, sender, proposal_id, r.msgs)
         /\ UNCHANGED <<height, xastro, allocations, down, expired_seen>>
    ELSE Reverted

SubmitProposalOf(inputs, limit) ==
    /\ proposal_count < limit
    /\ \E sender \in {XastroToken, "alice"}, cw20_sender \in Submitters, in \in inputs :
         Apply(submit_proposal(Storage, height, sender, cw20_sender, in.deposit_amount,
                               in.link, in.messages, in.ibc_channel),
               "submit_proposal", sender, proposal_count + 1)

CastVote ==
    \E sender \in Users, proposal_id \in 1..MaxProposals + 1, vote \in ProposalVoteOption :
        Apply(cast_vote(Storage, height, sender, proposal_id, vote),
              "cast_vote", sender, proposal_id)

EndProposal ==
    \E sender \in {AnyCaller}, proposal_id \in 1..MaxProposals + 1 :
        Apply(end_proposal(Storage, height, sender, proposal_id),
              "end_proposal", sender, proposal_id)

ExecuteProposal ==
    \E sender \in {AnyCaller}, proposal_id \in 1..MaxProposals + 1 :
        LET r == execute_proposal(Storage, height, sender, proposal_id)
            d == IF r.err = "Ok" THEN Dispatch(r.st, r.msgs) ELSE r
        IN  IF d.err = "Ok"
            THEN /\ Commit(d.st)
                 /\ resp' = Response("execute_proposal", sender, proposal_id, r.msgs)
                 /\ UNCHANGED <<height, xastro, allocations, down, expired_seen>>
            ELSE /\ expired_seen' = IF r.err = "ExecuteProposalExpired"
                                    THEN expired_seen \cup {proposal_id}
                                    ELSE expired_seen
                 /\ UNCHANGED <<config, proposals, proposal_count, height, xastro, allocations, down,
                              resp>>

RemoveCompletedProposal ==
    \E sender \in {AnyCaller}, proposal_id \in 1..MaxProposals + 1 :
        Apply(remove_completed_proposal(Storage, height, sender, proposal_id),
              "remove_completed_proposal", sender, proposal_id)

\* a direct call of UpdateConfig: info.sender is never the Assembly itself
UpdateConfig ==
    \E sender \in {"alice", Controller}, upd \in UpdateOptions :
        Apply(update_config(Storage, sender, upd), "update_config", sender, 0)

IBCProposalCompleted ==
    \E sender \in {Controller, OtherController, "carol"}, proposal_id \in 1..MaxProposals + 1,
       status \in {"Executed", "Failed", "Passed"} :
        Apply(update_ibc_proposal_status(Storage, sender, proposal_id, status),
              "ibc_proposal_completed", sender, proposal_id)

\* the dry run: the last message of the response fails the transaction
CheckMessages ==
    \E messages \in MessageLists :
        LET r == check_messages(Storage, messages)
            d == Dispatch(r.st, r.msgs)
        IN  Apply(d, "check_messages", AnyCaller, 0)

\* a direct call of the sentinel
CheckMessagesPassed ==
    \E sender \in Senders :
        Apply(check_messages_passed(Storage, sender), "check_messages_passed", sender, 0)

\* a query changes nothing
QueryProposal ==
    \E proposal_id \in 1..MaxProposals + 1 :
        /\ query_proposal(Storage, proposal_id).err \in {"Ok", "NotFound"}
        /\ UNCHANGED vars

\* the chain produces the next block
Tick ==
    /\ height < MaxHeight
    /\ height' = height + 1
    /\ resp' = NoResponse
    /\ UNCHANGED <<config, proposals, proposal_count, xastro, allocations, down, expired_seen>>

\* builder unlock, ExecuteMsg::Withdraw {}: the account withdraws its allocation
BuilderWithdraw ==
    \E account \in Users :
        /\ allocations[account].astro_withdrawn < allocations[account].amount
        /\ allocations' = [allocations EXCEPT ![account].astro_withdrawn =
                                                  allocations[account].amount]
        /\ resp' = NoResponse
        /\ UNCHANGED <<config, proposals, proposal_count, height, xastro, down, expired_seen>>

\* builder unlock, ExecuteMsg::ClaimReceiver { prev_receiver }: the allocation
\* of prev_receiver becomes the allocation of the claiming account
BuilderClaimReceiver ==
    \E prev_receiver \in {"carol"}, new_receiver \in {"bob"} :
        /\ allocations[prev_receiver].amount # 0
        /\ allocations[new_receiver].amount = 0
        /\ allocations' = [allocations EXCEPT ![new_receiver] = allocations[prev_receiver],
                                              ![prev_receiver] = NoAllocation]
        /\ resp' = NoResponse
        /\ UNCHANGED <<config, proposals, proposal_count, height, xastro, down, expired_seen>>

\* xASTRO, mint: the recipient's balance and the supply grow in this block;
\* the model mints once in a block
MintAmounts == {1, Uint128Max - Supply(FundedXastro)}
XastroMint ==
    \E recipient \in {"carol"}, amount \in MintAmounts :
        LET last == xastro[Len(xastro)]
            minted == [last.ledger EXCEPT !.balances[recipient] = @ + amount]
        IN  /\ Len(xastro) <= MaxMints
            /\ last.block < height
            /\ Supply(last.ledger) + amount <= Uint128Max
            /\ xastro' = Append(xastro, Checkpoint(height, minted))
            /\ resp' = NoResponse
            /\ UNCHANGED <<config, proposals, proposal_count, height, allocations, down,
                           expired_seen>>

\* an external contract stops answering queries, or answers again
Externals == {XastroToken, BuilderUnlock, VxastroToken}
Outage ==
    \E contract \in Externals :
        /\ down \in {{}, {contract}}
        /\ down' = IF contract \in down THEN {} ELSE {contract}
        /\ resp' = NoResponse
        /\ UNCHANGED <<config, proposals, proposal_count, height, xastro, allocations,
                       expired_seen>>

SubmitProposal == SubmitProposalOf(SubmitInputs, MaxProposals)

\* the governance scenario: one more proposal, fewer kinds of proposals
SubmitGovProposal == SubmitProposalOf(GovInputs, MaxProposals + 1)

Next ==
    \/ SubmitProposal
    \/ CastVote
    \/ EndProposal
    \/ ExecuteProposal
    \/ RemoveCompletedProposal
    \/ UpdateConfig
    \/ IBCProposalCompleted
    \/ CheckMessages
    \/ CheckMessagesPassed
    \/ QueryProposal
    \/ Tick
    \/ BuilderWithdraw
    \/ BuilderClaimReceiver

Spec == Init /\ [][Next]_vars

NextGov ==
    \/ SubmitGovProposal
    \/ CastVote
    \/ EndProposal
    \/ ExecuteProposal
    \/ RemoveCompletedProposal
    \/ UpdateConfig
    \/ Tick

InitGov ==
    /\ Init
    /\ config = InitConfig(None, Some(Controller), 1, 1, 2)

SpecGov == InitGov /\ [][NextGov]_vars

\* the message scenario: one proposal, every list of messages
SubmitMsgProposal == SubmitProposalOf(MsgInputs, 1)

NextMsg ==
    \/ SubmitMsgProposal
    \/ CastVote
    \/ EndProposal
    \/ ExecuteProposal
    \/ CheckMessages
    \/ CheckMessagesPassed
    \/ Tick

SpecMsg == InitGov /\ [][NextMsg]_vars

\* the power scenario: one plain proposal, the ledgers move and fail
PowerInputs == {SubmitInput(1, GoodLink, None, None)}
SubmitPowerProposal == SubmitProposalOf(PowerInputs, 1)

NextPower ==
    \/ SubmitPowerProposal
    \/ CastVote
    \/ EndProposal
    \/ XastroMint
    \/ BuilderWithdraw
    \/ Outage
    \/ Tick

SpecPower == Init /\ [][NextPower]_vars

\* the life-cycle scenario: two proposals, one whose action pays xASTRO to
\* its submitter and one for another chain
PayoutMessages == <<ProposalMessage(1, TransferMsg(XastroToken, "alice", 1))>>
LifeInputs ==
    {SubmitInput(1, GoodLink, Some(PayoutMessages), None),
     SubmitInput(1, GoodLink, Some(ThreeMessages), Some("channel-1"))}
SubmitLifeProposal == SubmitProposalOf(LifeInputs, MaxProposals + 1)

NextLife ==
    \/ SubmitLifeProposal
    \/ CastVote
    \/ EndProposal
    \/ ExecuteProposal
    \/ RemoveCompletedProposal
    \/ IBCProposalCompleted
    \/ Tick

SpecLife == InitGov /\ [][NextLife]_vars

\* the list scenario: long proposal tables, no votes
ListSizes == {0, DEFAULT_LIMIT, DEFAULT_LIMIT + 1, MAX_LIMIT + 1}
ListHeights == {1, 3}
MaxListed == MAX_LIMIT + 3
ListInputs == {SubmitInput(1, GoodLink, None, None)}
StartOptions == {None} \cup {Some(id) : id \in 1..MaxListed + 1}
LimitOptions == {None, Some(0), Some(1), Some(DEFAULT_LIMIT + 1), Some(MAX_LIMIT),
                 Some(MAX_LIMIT + 1), Some(3 * MAX_LIMIT)}

\* the storage after n Submits by alice in block 1
SubmittedInBlockOne(st, n) ==
    [st EXCEPT !.proposal_count = n,
               !.proposals = [id \in 1..n |->
                                 NewProposal(st.config, 1, id, "alice", 1, GoodLink,
                                             None, None)]]

\* n proposals were submitted in block 1, and it is block 1 or block 3
InitList ==
    /\ \E n \in ListSizes :
         LET st == SubmittedInBlockOne(instantiate(InstantiateMsg(None, Some(Controller), 1, 1, 2,
                                                                   <<ForumLink>>)).st, n)
         IN  /\ config = st.config
             /\ proposals = st.proposals
             /\ proposal_count = st.proposal_count
    /\ height \in ListHeights
    /\ xastro = <<Checkpoint(0, FundedXastro)>>
    /\ allocations = FundedAllocations
    /\ down = {}
    /\ resp = NoResponse
    /\ expired_seen = {}

SubmitListProposal == SubmitProposalOf(ListInputs, MaxListed)

\* a query changes nothing
QueryProposals ==
    \E start \in StartOptions, limit \in LimitOptions :
        /\ query_proposals(Storage, start, limit).proposal_count = proposal_count
        /\ UNCHANGED vars

NextList ==
    \/ SubmitListProposal
    \/ EndProposal
    \/ RemoveCompletedProposal
    \/ QueryProposals

SpecList == InitList /\ [][NextList]_vars

----------------------------------------------------------------------------
(* Properties *)

ToSet(v) == {v[i] : i \in 1..Len(v)}
NoDuplicates(v) == \A i, j \in 1..Len(v) : v[i] = v[j] => i = j

\* C1: in every reachable state, no account of a stored proposal is both in
\* for_voters and in against_voters, and no account is twice in either list.
C1_VotersDisjoint ==
    \A id \in DOMAIN proposals :
        /\ ToSet(proposals[id].for_voters) \cap ToSet(proposals[id].against_voters) = {}
        /\ NoDuplicates(proposals[id].for_voters)
        /\ NoDuplicates(proposals[id].against_voters)

\* a proposal on which one account voted for and another against
C1_Witness ==
    \E id \in DOMAIN proposals :
        /\ proposals[id].for_voters # <<>>
        /\ proposals[id].against_voters # <<>>

\* C2: in every reachable state, the power cast on a stored proposal
\* (for_power + against_power) is at most the total voting power End would
\* compute for it, the vesting ledger being read live.
C2_CastWithinTotal ==
    \A id \in DOMAIN proposals :
        proposals[id].for_power + proposals[id].against_power
            <= calc_total_voting_power_at(config, proposals[id]).val

\* C3: a CastVote sent by the submitter of a stored proposal is rejected for
\* either vote option and leaves the storage as it was, and in every reachable
\* state the submitter is in neither voter list of their own proposal.
C3_SubmitterCannotVote ==
    \A id \in DOMAIN proposals :
        LET submitter == proposals[id].submitter
        IN  /\ submitter \notin ToSet(proposals[id].for_voters)
                               \cup ToSet(proposals[id].against_voters)
            /\ \A vote \in ProposalVoteOption :
                   LET r == cast_vote(Storage, height, submitter, id, vote)
                   IN  r.err # "Ok" /\ r.st = Storage

\* an open proposal on which another account has voted and whose submitter
\* holds voting power: only the submitter check stands between them and a vote
C3_Witness ==
    \E id \in DOMAIN proposals :
        /\ proposals[id].status = "Active"
        /\ height <= proposals[id].end_block
        /\ proposals[id].for_voters # <<>>
        /\ calc_voting_power(config, proposals[id].submitter, proposals[id]).val > 0
        /\ cast_vote(Storage, height, proposals[id].submitter, id, "For").err = "Unauthorized"

\* C4: the response of a successful End carries exactly one message: a
\* transfer on the xASTRO token, to the submitter of the proposal, of the
\* deposit_amount stored with the proposal, whether it Passed or was Rejected.
C4_EndRefundsDeposit ==
    resp.op = "end_proposal" =>
        LET proposal == proposals[resp.proposal_id]
        IN  /\ proposal.status \in {"Passed", "Rejected"}
            /\ Len(resp.messages) = 1
            /\ resp.messages[1].contract_addr = config.xastro_token_addr
            /\ resp.messages[1].msg.kind = "Transfer"
            /\ resp.messages[1].msg.recipient = proposal.submitter
            /\ resp.messages[1].msg.amount = proposal.deposit_amount

\* the deposit_amount of a stored proposal is the one stored by Submit: no
\* step changes it
DepositAmountKept ==
    [][\A id \in DOMAIN proposals :
           id \in DOMAIN proposals' =>
               proposals'[id].deposit_amount = proposals[id].deposit_amount]_vars

\* End of a Passed proposal whose deposit is below the deposit required now:
\* the requirement was raised after the proposal was submitted
C4_Witness ==
    /\ resp.op = "end_proposal"
    /\ proposals[resp.proposal_id].status = "Passed"
    /\ proposals[resp.proposal_id].deposit_amount < config.proposal_required_deposit

\* End of a Rejected proposal whose deposit exceeded the required deposit
RejectedWithLargerDeposit ==
    /\ resp.op = "end_proposal"
    /\ proposals[resp.proposal_id].status = "Rejected"
    /\ proposals[resp.proposal_id].deposit_amount > config.proposal_required_deposit

\* C5: for a Passed proposal at height h, with D = end_block + effective_delay,
\* Execute is rejected with ProposalDelayNotEnded when h < D, succeeds (the
\* proposal becomes Executed or InProgress) when D <= h <= D + expiration_period,
\* and is rejected with ExecuteProposalExpired when h > D + expiration_period;
\* a rejected Execute leaves the storage, and so the status Passed, as it was.
C5_ExecutionWindow ==
    \A id \in DOMAIN proposals :
        proposals[id].status = "Passed" =>
            LET D == proposals[id].end_block + config.proposal_effective_delay
                r == execute_proposal(Storage, height, AnyCaller, id)
            IN  /\ height < D =>
                       r.err = "ProposalDelayNotEnded" /\ r.st = Storage
                /\ (D <= height /\ height <= D + config.proposal_expiration_period) =>
                       /\ r.err = "Ok"
                       /\ r.st.proposals[id].status \in {"Executed", "InProgress"}
                /\ height > D + config.proposal_expiration_period =>
                       r.err = "ExecuteProposalExpired" /\ r.st = Storage

\* a Passed proposal whose Execute was rejected as expired and is rejected
\* still, in a block in which another proposal was executed on the last block
\* of its window
C5_Witness ==
    \E id \in expired_seen :
        /\ id \in DOMAIN proposals
        /\ proposals[id].status = "Passed"
        /\ execute_proposal(Storage, height, AnyCaller, id).err = "ExecuteProposalExpired"
        /\ resp.op = "execute_proposal"
        /\ height = proposals[resp.proposal_id].end_block + config.proposal_effective_delay
                        + config.proposal_expiration_period

\* a Passed proposal before the end of its delay
PassedBeforeDelay ==
    \E id \in DOMAIN proposals :
        /\ proposals[id].status = "Passed"
        /\ execute_proposal(Storage, height, AnyCaller, id).err = "ProposalDelayNotEnded"

\* C6: a proposal whose Execute was once rejected as expired is never
\* executed afterwards: it is never found Executed or InProgress.
C6_ExpiredStaysBarred ==
    \A id \in expired_seen :
        id \in DOMAIN proposals => proposals[id].status \notin {"Executed", "InProgress"}

\* the status changes the life cycle allows
StatusEdges ==
    {<<"Active", "Passed">>, <<"Active", "Rejected">>,
     <<"Passed", "Executed">>, <<"Passed", "InProgress">>,
     <<"InProgress", "Executed">>, <<"InProgress", "Failed">>}
    \cup {<<s, "Expired">> : s \in {"Active", "Passed", "InProgress"}}

\* the position of a status in the life cycle
StatusRank(status) ==
    CASE status = "Active" -> 0
      [] status = "Passed" -> 1
      [] status = "InProgress" -> 2
      [] OTHER -> 3

\* C7: every step that changes the status of a stored proposal follows one of
\* the edges Active->Passed, Active->Rejected, Passed->Executed,
\* Passed->InProgress, InProgress->Executed, InProgress->Failed or moves a
\* non-terminal status to Expired; so Rejected, Executed, Failed and Expired
\* have no outgoing change, and every change moves forward in the life cycle.
C7_StatusEdges ==
    [][\A id \in DOMAIN proposals :
           (id \in DOMAIN proposals' /\ proposals'[id].status # proposals[id].status) =>
               /\ <<proposals[id].status, proposals'[id].status>> \in StatusEdges
               /\ StatusRank(proposals'[id].status) > StatusRank(proposals[id].status)]_vars

\* a proposal that went Active -> Passed -> InProgress -> Failed
C7_Witness ==
    /\ resp.op = "ibc_proposal_completed"
    /\ proposals[resp.proposal_id].status = "Failed"

\* C8: the callback of the controller is accepted exactly when the caller is
\* the configured controller, the proposal is stored and InProgress and the
\* reported status is Executed or Failed, and then it changes nothing but the
\* status of that proposal, to the reported one; any other call is rejected
\* and changes nothing. After an accepted callback every further callback for
\* the same proposal is rejected.
C8_CallbackGuard ==
    /\ \A sender \in Senders \cup {Assembly}, id \in 1..MaxProposals + 1,
          status \in ProposalStatus :
           LET r == update_ibc_proposal_status(Storage, sender, id, status)
           IN  IF /\ config.ibc_controller # None
                  /\ sender = config.ibc_controller[1]
                  /\ id \in DOMAIN proposals
                  /\ proposals[id].status = "InProgress"
                  /\ status \in {"Executed", "Failed"}
               THEN /\ r.err = "Ok"
                    /\ r.st = [Storage EXCEPT !.proposals[id].status = status]
               ELSE r.err # "Ok" /\ r.st = Storage
    /\ resp.op = "ibc_proposal_completed" =>
           /\ proposals[resp.proposal_id].status \in {"Executed", "Failed"}
           /\ \A sender \in Senders \cup {Assembly}, status \in ProposalStatus :
                  update_ibc_proposal_status(Storage, sender, resp.proposal_id,
                                             status).err # "Ok"

\* the controller reported Executed for an InProgress proposal: the callback
\* was accepted, and a second one from the same controller is rejected
C8_Witness ==
    /\ resp.op = "ibc_proposal_completed"
    /\ proposals[resp.proposal_id].status = "Executed"
    /\ config.ibc_controller = Some(resp.sender)
    /\ update_ibc_proposal_status(Storage, resp.sender, resp.proposal_id,
                                  "Failed").err = "NotUpdatedProposalStatus"

\* the proposal the last End was about, its cast power and the total voting
\* power End computed for it
EndedProposal == proposals[resp.proposal_id]
EndedCast == EndedProposal.for_power + EndedProposal.against_power
EndedTotal == calc_total_voting_power_at(config, EndedProposal).val

\* C9, as stated: after a successful End the proposal is Passed exactly when
\* cast / total_power >= required_quorum and for_power / cast >
\* required_threshold, the two quotients being the exact ratios (0 on a zero
\* denominator), and Rejected otherwise. A requirement r stands for the
\* decimal r / DecimalFractional.
C9_ExactRatios ==
    resp.op = "end_proposal" =>
        LET quorum_met == IF EndedTotal = 0
                          THEN 0 >= config.proposal_required_quorum
                          ELSE EndedCast * DecimalFractional
                                   >= config.proposal_required_quorum * EndedTotal
            threshold_met == IF EndedCast = 0
                             THEN 0 > config.proposal_required_threshold
                             ELSE EndedProposal.for_power * DecimalFractional
                                      > config.proposal_required_threshold * EndedCast
        IN  EndedProposal.status = IF quorum_met /\ threshold_met THEN "Passed" ELSE "Rejected"

\* C9, amended: after a successful End the proposal is Passed exactly when
\* quorum >= required_quorum and threshold > required_threshold, and Rejected
\* otherwise, where quorum and threshold are the quotients cast / total_power
\* and for_power / cast rounded down to the precision of the decimal type
\* (0 on a zero denominator).
C9_FixedPointRatios ==
    resp.op = "end_proposal" =>
        LET quorum == IF EndedTotal = 0 THEN 0
                      ELSE (EndedCast * DecimalFractional) \div EndedTotal
            threshold == IF EndedCast = 0 THEN 0
                         ELSE (EndedProposal.for_power * DecimalFractional) \div EndedCast
        IN  EndedProposal.status =
                IF quorum >= config.proposal_required_quorum
                   /\ threshold > config.proposal_required_threshold
                THEN "Passed" ELSE "Rejected"

\* End passed a proposal whose quorum, as the decimal type holds it, is
\* exactly the required quorum
C9_Witness ==
    /\ resp.op = "end_proposal"
    /\ EndedProposal.status = "Passed"
    /\ config.proposal_required_quorum > 0
    /\ (EndedCast * DecimalFractional) \div EndedTotal = config.proposal_required_quorum

\* End rejected a proposal that met the quorum and whose threshold is exactly
\* the required threshold
ThresholdEqualRejected ==
    /\ resp.op = "end_proposal"
    /\ EndedProposal.status = "Rejected"
    /\ EndedCast > 0
    /\ EndedCast * DecimalFractional >= config.proposal_required_quorum * EndedTotal
    /\ EndedProposal.for_power * DecimalFractional
           = config.proposal_required_threshold * EndedCast

\* C10: End sets a proposal on which no vote was cast to Rejected, whatever
\* the configuration and the total voting power, and does not fail on it.
C10_NoVotesRejected ==
    /\ (resp.op = "end_proposal" /\ EndedCast = 0) => EndedProposal.status = "Rejected"
    /\ \A id \in DOMAIN proposals :
           (/\ proposals[id].status = "Active"
            /\ height > proposals[id].end_block
            /\ proposals[id].for_power + proposals[id].against_power = 0) =>
               LET r == end_proposal(Storage, height, AnyCaller, id)
               IN  r.err = "Ok" /\ r.st.proposals[id].status = "Rejected"

\* End of a proposal without votes where the required quorum, the required
\* threshold and the total voting power are all zero
C10_Witness ==
    /\ resp.op = "end_proposal"
    /\ EndedCast = 0
    /\ EndedTotal = 0
    /\ config.proposal_required_quorum = 0
    /\ config.proposal_required_threshold = 0
    /\ EndedProposal.status = "Rejected"

\* End of a proposal without votes where the requirements are zero and the
\* total voting power is not
NoVotesZeroRequirements ==
    /\ resp.op = "end_proposal"
    /\ EndedCast = 0
    /\ EndedTotal > 0
    /\ config.proposal_required_quorum = 0
    /\ config.proposal_required_threshold = 0

\* C11: RemoveCompletedProposal deletes a stored proposal exactly when it is
\* Rejected, or Active with the height past end_block + effective_delay +
\* expiration_period; for a Passed, InProgress, Executed or Failed proposal it
\* is rejected with ProposalNotCompleted at every height and changes nothing.
C11_RemoveOnlyCompleted ==
    \A id \in DOMAIN proposals :
        LET r == remove_completed_proposal(Storage, height, AnyCaller, id)
            lapsed == height > proposals[id].end_block + config.proposal_effective_delay
                                   + config.proposal_expiration_period
        IN  IF \/ proposals[id].status = "Rejected"
               \/ proposals[id].status = "Active" /\ lapsed
            THEN r.err = "Ok" /\ r.st = Remove(Storage, id)
            ELSE r.err = "ProposalNotCompleted" /\ r.st = Storage

\* C12: a step from a state in which a proposal is InProgress either leaves
\* it stored and InProgress, or is the accepted callback of the configured
\* controller for that proposal.
C12_InProgressUntilCallback ==
    [][\A id \in DOMAIN proposals :
           proposals[id].status = "InProgress" =>
               \/ id \in DOMAIN proposals' /\ proposals'[id].status = "InProgress"
               \/ /\ resp'.op = "ibc_proposal_completed"
                  /\ resp'.proposal_id = id
                  /\ Some(resp'.sender) = config.ibc_controller
                  /\ id \in DOMAIN proposals'
                  /\ proposals'[id].status \in {"Executed", "Failed"}]_vars

\* the arrangements of the positions of a list that put the order keys in
\* non-decreasing order and keep the positions of equal order key in order
StableArrangements(in) ==
    {perm \in [1..Len(in) -> 1..Len(in)] :
        /\ \A i, j \in 1..Len(in) : perm[i] = perm[j] => i = j
        /\ \A i, j \in 1..Len(in) :
               i < j => \/ in[perm[i]].order < in[perm[j]].order
                        \/ in[perm[i]].order = in[perm[j]].order /\ perm[i] < perm[j]}

\* the messages of the proposal the last Execute was about
ExecutedMessages ==
    IF IsSome(proposals[resp.proposal_id].messages)
    THEN Unwrap(proposals[resp.proposal_id].messages) ELSE <<>>

\* C13: the messages a local Execute emits, the messages a cross-chain
\* Execute bundles for the controller and the messages the dry run outputs
\* (before its closing self-call) are the proposal's messages, each once, in
\* non-decreasing order key, those of equal order key in submission order.
C13_MessagesStablySorted ==
    /\ resp.op = "execute_proposal" =>
           IF IsSome(proposals[resp.proposal_id].ibc_channel)
           THEN IsSome(proposals[resp.proposal_id].messages) =>
                    /\ Len(resp.messages) = 1
                    /\ \E perm \in StableArrangements(ExecutedMessages) :
                           resp.messages[1].msg.messages =
                               [i \in 1..Len(ExecutedMessages) |-> ExecutedMessages[perm[i]]]
           ELSE \E perm \in StableArrangements(ExecutedMessages) :
                    resp.messages =
                        [i \in 1..Len(ExecutedMessages) |-> ExecutedMessages[perm[i]].msg]
    /\ \A messages \in MessageLists :
           LET r == check_messages(Storage, messages)
           IN  /\ r.err = "Ok"
               /\ r.st = Storage
               /\ \E perm \in StableArrangements(messages) :
                      r.msgs = [i \in 1..Len(messages) + 1 |->
                                   IF i <= Len(messages) THEN messages[perm[i]].msg
                                   ELSE CheckMessagesPassedMsg]

\* a local Execute of a proposal whose messages came out of order and hold
\* two messages of the same order key
C13_Witness ==
    /\ resp.op = "execute_proposal"
    /\ ~IsSome(proposals[resp.proposal_id].ibc_channel)
    /\ \E i, j \in 1..Len(ExecutedMessages) :
           i < j /\ ExecutedMessages[i].order > ExecutedMessages[j].order
    /\ \E i, j \in 1..Len(ExecutedMessages) :
           i < j /\ ExecutedMessages[i].order = ExecutedMessages[j].order

\* a cross-chain Execute of such a proposal
CrossChainOutOfOrder ==
    /\ resp.op = "execute_proposal"
    /\ IsSome(proposals[resp.proposal_id].ibc_channel)
    /\ \E i, j \in 1..Len(ExecutedMessages) :
           i < j /\ ExecutedMessages[i].order > ExecutedMessages[j].order
    /\ \E i, j \in 1..Len(ExecutedMessages) :
           i < j /\ ExecutedMessages[i].order = ExecutedMessages[j].order

\* C14: the counter starts at 0 and the steps that move it, by one, are the
\* successful Submits; the new proposal is stored under the new value of the
\* counter, which is larger than every id assigned before, also the ids of
\* removed proposals; every stored proposal is stored under its own id, which
\* is between 1 and the counter.
C14_IdsFromCounter ==
    /\ [](\A id \in DOMAIN proposals :
              /\ 1 <= id
              /\ id <= proposal_count
              /\ proposals[id].proposal_id = id)
    /\ [][/\ proposal_count' \in {proposal_count, proposal_count + 1}
          /\ DOMAIN proposals' \ DOMAIN proposals =
                 IF proposal_count' = proposal_count THEN {} ELSE {proposal_count'}
          /\ proposal_count' # proposal_count <=>
                 /\ resp'.op = "submit_proposal"
                 /\ resp'.proposal_id = proposal_count'
                 /\ resp' # resp]_vars

\* the first proposal was removed and the second Submit got id 2
C14_Witness ==
    /\ proposal_count = 2
    /\ DOMAIN proposals = {2}
    /\ resp.op = "submit_proposal"

\* C15: UpdateConfig called by any account but the contract itself is
\* rejected as Unauthorized and changes nothing, and the config changes only
\* in a step that executes a Passed proposal carrying an UpdateConfig message
\* for the Assembly.
C15_ConfigOnlyByProposal ==
    /\ [](\A sender \in Senders, upd \in UpdateOptions \cup {NoUpdate} :
              /\ update_config(Storage, sender, upd).err = "Unauthorized"
              /\ update_config(Storage, sender, upd).st = Storage)
    /\ [][config' # config =>
              /\ resp'.op = "execute_proposal"
              /\ resp'.proposal_id \in DOMAIN proposals
              /\ proposals[resp'.proposal_id].status = "Passed"
              /\ proposals'[resp'.proposal_id].status = "Executed"
              /\ \E i \in 1..Len(resp'.messages) :
                     /\ resp'.messages[i].contract_addr = Assembly
                     /\ resp'.messages[i].msg.kind = "UpdateConfig"]_vars

\* the execution of a proposal has replaced the controller
C15_Witness ==
    /\ resp.op = "execute_proposal"
    /\ config.ibc_controller = Some(OtherController)

\* the links an update leaves in the whitelist
LinksLeft(upd) ==
    (ToSet(config.whitelisted_links)
         \cup (IF IsSome(upd.whitelist_add) THEN ToSet(Unwrap(upd.whitelist_add)) ELSE {}))
    \ (IF IsSome(upd.whitelist_remove) THEN ToSet(Unwrap(upd.whitelist_remove)) ELSE {})

\* C16: the whitelist is never empty; instantiation with an empty whitelist
\* fails; an UpdateConfig of the contract on itself that would leave no link
\* is rejected with WhitelistEmpty and changes nothing, and the Execute that
\* carries it fails as a whole.
C16_WhitelistNeverEmpty ==
    /\ config.whitelisted_links # <<>>
    /\ \A sc \in Scenarios :
           sc.msg.whitelisted_links = <<>> => instantiate(sc.msg).err = "WhitelistEmpty"
    /\ \A upd \in UpdateOptions :
           LinksLeft(upd) = {} =>
               /\ update_config(Storage, Assembly, upd).err = "WhitelistEmpty"
               /\ update_config(Storage, Assembly, upd).st = Storage
    /\ \A id \in DOMAIN proposals :
           LET r == execute_proposal(Storage, height, AnyCaller, id)
           IN  (/\ r.err = "Ok"
                /\ \E i \in 1..Len(r.msgs) :
                       /\ r.msgs[i].contract_addr = Assembly
                       /\ r.msgs[i].msg.kind = "UpdateConfig"
                       /\ LinksLeft(r.msgs[i].msg.update) = {})
               => Dispatch(r.st, r.msgs).err = "WhitelistEmpty"

\* a Passed proposal, in its execution window, that adds a link and removes
\* every link: its Execute fails
C16_Witness ==
    \E id \in DOMAIN proposals :
        /\ proposals[id].messages = Some(<<ProposalMessage(1, UpdateConfigMsg(AddThenDropAll))>>)
        /\ execute_proposal(Storage, height, AnyCaller, id).err = "Ok"
        /\ Dispatch(execute_proposal(Storage, height, AnyCaller, id).st,
                    execute_proposal(Storage, height, AnyCaller, id).msgs).err = "WhitelistEmpty"

\* the only link was replaced by another
WhitelistSwapped ==
    /\ resp.op = "execute_proposal"
    /\ config.whitelisted_links = <<DocsLink>>

\* a handler's result followed by the messages of its response
Transaction(r) == IF r.err = "Ok" THEN Dispatch(r.st, r.msgs) ELSE r

\* the results of the Submits that can be sent in the current state
SubmitCalls ==
    {submit_proposal(Storage, height, sender, cw20_sender, in.deposit_amount, in.link,
                     in.messages, in.ibc_channel) :
        sender \in Senders, cw20_sender \in Submitters, in \in SubmitInputs}

\* the results of the transactions that can be sent in the current state
Calls ==
    SubmitCalls
    \cup {cast_vote(Storage, height, sender, id, vote) :
             sender \in Users, id \in 1..MaxProposals + 1, vote \in ProposalVoteOption}
    \cup {end_proposal(Storage, height, AnyCaller, id) : id \in 1..MaxProposals + 1}
    \cup {Transaction(execute_proposal(Storage, height, AnyCaller, id)) :
             id \in 1..MaxProposals + 1}
    \cup {remove_completed_proposal(Storage, height, AnyCaller, id) :
             id \in 1..MaxProposals + 1}
    \cup {update_config(Storage, sender, upd) : sender \in Senders, upd \in UpdateOptions}
    \cup {update_ibc_proposal_status(Storage, sender, id, status) :
             sender \in Senders, id \in 1..MaxProposals + 1, status \in ProposalStatus}
    \cup {Transaction(check_messages(Storage, messages)) : messages \in MessageLists}

\* C17: the proposal table, the counter and the config change only as the
\* outcome of a transaction that returned no error: a failed one leaves them
\* as they were. A Submit that fails on the controller, the channel or the
\* link has incremented the counter in its own writes, and these are dropped.
C17_ErrorsChangeNothing ==
    /\ [](\A r \in SubmitCalls :
              r.err \in {"MissingIBCController", "InvalidChannel", "InvalidProposal"} =>
                  r.st.proposal_count = proposal_count + 1)
    /\ [][Storage' # Storage =>
              \E r \in Calls : r.err = "Ok" /\ r.st = Storage']_vars

\* the first Submit that succeeded got id 1 from a config without controller,
\* under which a Submit that asks for a channel fails after the counter was
\* incremented
C17_Witness ==
    /\ resp.op = "submit_proposal"
    /\ resp.proposal_id = 1
    /\ proposal_count = 1
    /\ \E r \in SubmitCalls : r.err = "MissingIBCController" /\ r.st.proposal_count = 2

\* C18: a Submit is rejected and stores no proposal when the caller is not
\* the xASTRO token contract, when the amount is below the required deposit,
\* when a channel is given and no controller is configured or the channel is
\* not in the controller's list, or when the link is not allowed; any other
\* Submit, so one whose amount equals the required deposit, is accepted.
C18_SubmitRejections ==
    \A sender \in Senders, cw20_sender \in Submitters, in \in SubmitInputs :
        LET r == submit_proposal(Storage, height, sender, cw20_sender, in.deposit_amount,
                                 in.link, in.messages, in.ibc_channel)
            rejected ==
                \/ sender # config.xastro_token_addr
                \/ in.deposit_amount < config.proposal_required_deposit
                \/ in.ibc_channel # None /\ config.ibc_controller = None
                \/ /\ in.ibc_channel # None
                   /\ config.ibc_controller # None
                   /\ in.ibc_channel[1] \notin ToSet(ControllerChannels(config.ibc_controller[1]))
                \/ /\ in.link # None
                   /\ in.link[1].prefix \notin ToSet(config.whitelisted_links)
        IN  IF rejected
            THEN r.err # "Ok" /\ Transaction(r).st.proposals = proposals
            ELSE r.err = "Ok" /\ DOMAIN r.st.proposals = DOMAIN proposals \cup {proposal_count + 1}

\* a Submit with exactly the required deposit was accepted, in a state in
\* which a Submit for a channel the controller does not list is rejected
C18_Witness ==
    /\ resp.op = "submit_proposal"
    /\ config.proposal_required_deposit > 0
    /\ proposals[resp.proposal_id].deposit_amount = config.proposal_required_deposit
    /\ \E r \in SubmitCalls : r.err = "InvalidChannel"

\* C19: a successful Submit stores one new proposal under the next id and
\* leaves the stored proposals, the config and everything else as they were;
\* the new proposal is Active, without votes and voters, submitted by the
\* account that sent the tokens, with start_block the current height,
\* end_block = start_block + the voting period of the config at that moment
\* and deposit_amount the attached amount.
C19_SubmitStores ==
    /\ \A cw20_sender \in Submitters, in \in GovInputs \cup SubmitInputs :
           LET r == submit_proposal(Storage, height, XastroToken, cw20_sender,
                                    in.deposit_amount, in.link, in.messages, in.ibc_channel)
               id == proposal_count + 1
           IN  r.err = "Ok" =>
                   /\ r.st.config = config
                   /\ r.st.proposal_count = id
                   /\ DOMAIN r.st.proposals = DOMAIN proposals \cup {id}
                   /\ \A other \in DOMAIN proposals : r.st.proposals[other] = proposals[other]
                   /\ r.st.proposals[id] =
                          [proposal_id |-> id, submitter |-> cw20_sender, status |-> "Active",
                           for_power |-> 0, against_power |-> 0,
                           for_voters |-> <<>>, against_voters |-> <<>>,
                           start_block |-> height, start_time |-> BlockTime(height),
                           end_block |-> height + config.proposal_voting_period,
                           link |-> in.link, messages |-> in.messages,
                           deposit_amount |-> in.deposit_amount,
                           ibc_channel |-> in.ibc_channel]
    /\ resp.op = "submit_proposal" =>
           /\ resp.proposal_id = proposal_count
           /\ proposals[resp.proposal_id].status = "Active"
           /\ proposals[resp.proposal_id].submitter \in Submitters
           /\ proposals[resp.proposal_id].submitter # resp.sender
           /\ proposals[resp.proposal_id].start_block = height
           /\ proposals[resp.proposal_id].end_block = height + config.proposal_voting_period
           /\ proposals[resp.proposal_id].for_power + proposals[resp.proposal_id].against_power = 0
           /\ proposals[resp.proposal_id].for_voters \o proposals[resp.proposal_id].against_voters
                  = <<>>

\* the second proposal was submitted after the first one had changed the
\* voting period, and the first one, with its votes, is still stored
C19_Witness ==
    /\ resp.op = "submit_proposal"
    /\ resp.proposal_id = 2
    /\ proposals[2].end_block = proposals[2].start_block + 2
    /\ 1 \in DOMAIN proposals
    /\ proposals[1].for_voters # <<>>

\* the pages a client gets that starts without `start` and asks for each next
\* page from the id after the last one it was given, until a page is empty
RECURSIVE Walk(_, _, _)
Walk(st, start, limit) ==
    LET page == query_proposals(st, start, limit).proposal_list
    IN  IF page = <<>> THEN <<>>
        ELSE page \o Walk(st, Some(page[Len(page)].proposal_id + 1), limit)

\* the limits of a walk: none, or a positive one
WalkLimits == LimitOptions \ {Some(0)}

\* C20: after a successful Submit a walk through the pages, with the default
\* limit or any positive limit, returns the new proposal exactly once, as it
\* is stored; every walk returns every stored proposal once, as stored, in
\* ascending id; every page is in ascending id from `start` on, holds at most
\* DEFAULT_LIMIT proposals when no limit is given and at most MAX_LIMIT
\* whatever the limit.
C20_PagedList ==
    /\ \A limit \in WalkLimits :
           LET w == Walk(Storage, None, limit)
           IN  /\ Len(w) = Cardinality(DOMAIN proposals)
               /\ \A i \in 1..Len(w) :
                      /\ w[i].proposal_id \in DOMAIN proposals
                      /\ w[i] = proposals[w[i].proposal_id]
               /\ \A i, j \in 1..Len(w) : i < j => w[i].proposal_id < w[j].proposal_id
               /\ resp.op = "submit_proposal" =>
                      Cardinality({i \in 1..Len(w) : w[i] = proposals[resp.proposal_id]}) = 1
    /\ \A start \in StartOptions, limit \in LimitOptions :
           LET page == query_proposals(Storage, start, limit).proposal_list
           IN  /\ Len(page) <= 30
               /\ limit = None => Len(page) <= 10
               /\ limit # None => Len(page) <= limit[1]
               /\ \A i \in 1..Len(page) :
                      /\ page[i].proposal_id \in DOMAIN proposals
                      /\ page[i] = proposals[page[i].proposal_id]
                      /\ start # None => page[i].proposal_id >= start[1]
               /\ \A i, j \in 1..Len(page) : i < j => page[i].proposal_id < page[j].proposal_id

\* a Submit into a table of more than MAX_LIMIT proposals from which the
\* first proposal was removed
C20_Witness ==
    /\ resp.op = "submit_proposal"
    /\ Cardinality(DOMAIN proposals) > 30
    /\ 1 \notin DOMAIN proposals

\* C21: no step changes the proposal_id, submitter, start_block, end_block or
\* deposit_amount of a proposal that stays stored, a change of the voting
\* period included; a proposal is stored with end_block = the height of its
\* Submit + the voting period the config holds at that Submit.
C21_EndBlockFixed ==
    [][/\ \A id \in DOMAIN proposals \cap DOMAIN proposals' :
              /\ proposals'[id].proposal_id = proposals[id].proposal_id
              /\ proposals'[id].submitter = proposals[id].submitter
              /\ proposals'[id].start_block = proposals[id].start_block
              /\ proposals'[id].end_block = proposals[id].end_block
              /\ proposals'[id].deposit_amount = proposals[id].deposit_amount
       /\ \A id \in DOMAIN proposals' \ DOMAIN proposals :
              /\ proposals'[id].start_block = height
              /\ proposals'[id].end_block = height + config.proposal_voting_period
              /\ config' = config]_vars

\* the first proposal has changed the voting period from 1 to 2 and keeps its
\* end_block; the second proposal, submitted afterwards, has the new period
C21_Witness ==
    /\ DOMAIN proposals = {1, 2}
    /\ config.proposal_voting_period = 2
    /\ proposals[1].status = "Executed"
    /\ proposals[1].end_block = proposals[1].start_block + 1
    /\ proposals[2].end_block = proposals[2].start_block + 2

Voters(proposal) == proposal.for_voters \o proposal.against_voters

\* C22: whenever a CastVote of an account would be accepted, it is applied
\* and a second CastVote of the same account on the same proposal, for the same
\* or the other option, run on the storage the first one leaves, is rejected as
\* UserAlreadyVoted and leaves that storage as it is; no account is twice in
\* the voter lists of a proposal, and the tallies of a proposal move only in a
\* step that adds one account, which had not voted, to one voter list and its
\* voting power to the tally of that side.
C22_OneVotePerAccount ==
    /\ [](\A id \in DOMAIN proposals :
              /\ NoDuplicates(Voters(proposals[id]))
              /\ \A sender \in Users, first, second \in ProposalVoteOption :
                     LET r1 == cast_vote(Storage, height, sender, id, first)
                         r2 == cast_vote(r1.st, height, sender, id, second)
                     IN  r1.err = "Ok" =>
                             /\ Contains(Voters(r1.st.proposals[id]), sender)
                             /\ r2.err = "UserAlreadyVoted"
                             /\ r2.st = r1.st)
    /\ [][\A id \in DOMAIN proposals \cap DOMAIN proposals' :
              LET old == proposals[id]
                  new == proposals'[id]
              IN  (new.for_power # old.for_power \/ new.against_power # old.against_power
                   \/ Voters(new) # Voters(old)) =>
                      /\ resp'.op = "cast_vote"
                      /\ ~Contains(Voters(old), resp'.sender)
                      /\ \/ /\ new.for_voters = Append(old.for_voters, resp'.sender)
                            /\ new.against_voters = old.against_voters
                            /\ new.against_power = old.against_power
                            /\ new.for_power = old.for_power
                                   + calc_voting_power(config, resp'.sender, old).val
                         \/ /\ new.against_voters = Append(old.against_voters, resp'.sender)
                            /\ new.for_voters = old.for_voters
                            /\ new.for_power = old.for_power
                            /\ new.against_power = old.against_power
                                   + calc_voting_power(config, resp'.sender, old).val]_vars

\* an account has just voted against an open proposal, and its vote for the
\* same proposal in the same block is refused as a second vote
C22_Witness ==
    /\ resp.op = "cast_vote"
    /\ resp.proposal_id \in DOMAIN proposals
    /\ Contains(proposals[resp.proposal_id].against_voters, resp.sender)
    /\ cast_vote(Storage, height, resp.sender, resp.proposal_id, "For").err = "UserAlreadyVoted"

\* the proposal as a vote of `sender` with `power` leaves it
WithVote(proposal, sender, vote, power) ==
    IF vote = "For"
    THEN [proposal EXCEPT !.for_power = @ + power, !.for_voters = Append(@, sender)]
    ELSE [proposal EXCEPT !.against_power = @ + power, !.against_voters = Append(@, sender)]

\* C23: a CastVote on a stored proposal is rejected and leaves the storage as
\* it was when the proposal is not Active (ProposalNotActive), when the height
\* is above end_block, or when the voting power computed for the caller is
\* zero; the vote of an account that is not the submitter, has not voted and
\* has voting power is accepted on an Active proposal at every height up to
\* and including end_block (the tally staying within Uint128), and changes
\* nothing but the tally and the voter list of the chosen side of that
\* proposal, by the caller's power and the caller.
C23_CastVoteGuards ==
    \A id \in DOMAIN proposals, sender \in Users, vote \in ProposalVoteOption :
        LET p == proposals[id]
            r == cast_vote(Storage, height, sender, id, vote)
            power == calc_voting_power(config, sender, p)
            tally == IF vote = "For" THEN p.for_power ELSE p.against_power
        IN  /\ p.status # "Active" => r.err = "ProposalNotActive" /\ r.st = Storage
            /\ height > p.end_block => r.err # "Ok" /\ r.st = Storage
            /\ (p.status = "Active" /\ sender # p.submitter /\ height > p.end_block)
                   => r.err = "VotingPeriodEnded"
            /\ (power.err = "Ok" /\ power.val = 0) => r.err # "Ok" /\ r.st = Storage
            /\ (/\ p.status = "Active"
                /\ sender # p.submitter
                /\ height <= p.end_block
                /\ ~Contains(Voters(p), sender)
                /\ power.err = "Ok"
                /\ power.val > 0
                /\ tally + power.val <= Uint128Max)
                   => /\ r.err = "Ok"
                      /\ r.st = [Storage EXCEPT !.proposals[id] =
                                     WithVote(p, sender, vote, power.val)]

\* a vote for a proposal was accepted in the block end_block of the proposal
C23_Witness ==
    /\ resp.op = "cast_vote"
    /\ resp.proposal_id \in DOMAIN proposals
    /\ height = proposals[resp.proposal_id].end_block
    /\ Contains(proposals[resp.proposal_id].for_voters, resp.sender)
    /\ proposals[resp.proposal_id].against_voters = <<>>
    /\ proposals[resp.proposal_id].for_power > 0

\* C24: an End on a stored proposal, by any caller, is rejected, leaves the
\* storage as it was and sends no message when the proposal is not Active
\* (ProposalNotActive) or the height is at most end_block
\* (VotingPeriodNotEnded); on an Active proposal at a height above end_block it
\* succeeds whenever the total voting power is computed without error, sets
\* the status to Passed or Rejected and changes nothing else; and a proposal
\* leaves the status Active for Passed or Rejected only in an End step taken
\* above end_block.
C24_EndGuards ==
    /\ [](\A id \in DOMAIN proposals, sender \in Senders :
              LET p == proposals[id]
                  r == end_proposal(Storage, height, sender, id)
              IN  /\ p.status # "Active" =>
                         r.err = "ProposalNotActive" /\ r.st = Storage /\ r.msgs = <<>>
                  /\ (p.status = "Active" /\ height <= p.end_block) =>
                         r.err = "VotingPeriodNotEnded" /\ r.st = Storage /\ r.msgs = <<>>
                  /\ (/\ p.status = "Active"
                      /\ height > p.end_block
                      /\ calc_total_voting_power_at(config, p).err = "Ok") =>
                         /\ r.err = "Ok"
                         /\ r.st.proposals[id].status \in {"Passed", "Rejected"}
                         /\ r.st = [Storage EXCEPT !.proposals[id].status =
                                        r.st.proposals[id].status])
    /\ [][\A id \in DOMAIN proposals \cap DOMAIN proposals' :
              (proposals[id].status = "Active"
               /\ proposals'[id].status \in {"Passed", "Rejected"}) =>
                  /\ height > proposals[id].end_block
                  /\ resp'.op = "end_proposal"
                  /\ resp'.proposal_id = id]_vars

\* a proposal was ended in the first block after its end_block
C24_Witness ==
    /\ resp.op = "end_proposal"
    /\ resp.proposal_id \in DOMAIN proposals
    /\ height = proposals[resp.proposal_id].end_block + 1
    /\ proposals[resp.proposal_id].status \in {"Passed", "Rejected"}

\* the arrangements of the positions of a list that put the order keys in
\* non-decreasing order
SortedArrangements(in) ==
    {perm \in [1..Len(in) -> 1..Len(in)] :
        /\ \A i, j \in 1..Len(in) : perm[i] = perm[j] => i = j
        /\ \A i, j \in 1..Len(in) : i < j => in[perm[i]].order <= in[perm[j]].order}

\* the action list of a proposal; none is an empty one
ActionList(proposal) == IF IsSome(proposal.messages) THEN Unwrap(proposal.messages) ELSE <<>>

\* C25: whenever an Execute of a stored proposal without ibc_channel
\* succeeds, it changes nothing in the storage but the status of the proposal,
\* which becomes Executed, and its messages are the msg of every message of
\* the proposal, once each, in non-decreasing order key (no message when the
\* proposal has none); none of them is an IbcExecuteProposal.  The response of
\* a committed Execute is that list.
C25_LocalExecute ==
    /\ \A id \in DOMAIN proposals, sender \in Senders :
           LET p == proposals[id]
               r == execute_proposal(Storage, height, sender, id)
           IN  (r.err = "Ok" /\ ~IsSome(p.ibc_channel)) =>
                   /\ r.st = [Storage EXCEPT !.proposals[id].status = "Executed"]
                   /\ \E perm \in SortedArrangements(ActionList(p)) :
                          r.msgs = [i \in 1..Len(ActionList(p)) |-> ActionList(p)[perm[i]].msg]
                   /\ \A i \in 1..Len(r.msgs) : r.msgs[i].msg.kind # "IbcExecuteProposal"
    /\ (resp.op = "execute_proposal" /\ ~IsSome(proposals[resp.proposal_id].ibc_channel)) =>
           /\ proposals[resp.proposal_id].status = "Executed"
           /\ \E perm \in SortedArrangements(ActionList(proposals[resp.proposal_id])) :
                  resp.messages = [i \in 1..Len(ActionList(proposals[resp.proposal_id])) |->
                                      ActionList(proposals[resp.proposal_id])[perm[i]].msg]

\* a proposal without ibc_channel whose three messages were submitted out of
\* order was executed
C25_Witness ==
    /\ resp.op = "execute_proposal"
    /\ ~IsSome(proposals[resp.proposal_id].ibc_channel)
    /\ proposals[resp.proposal_id].status = "Executed"
    /\ Len(resp.messages) = 3
    /\ ActionList(proposals[resp.proposal_id])[1].order
           > ActionList(proposals[resp.proposal_id])[2].order

\* a proposal without ibc_channel and without messages was executed
LocalExecuteNoMessages ==
    /\ resp.op = "execute_proposal"
    /\ ~IsSome(proposals[resp.proposal_id].ibc_channel)
    /\ ~IsSome(proposals[resp.proposal_id].messages)

\* C26: whenever an Execute of a stored proposal with an ibc_channel succeeds,
\* none of the proposal's messages is among the messages of the response: when
\* the proposal has messages, its status becomes InProgress and the response
\* is one IbcExecuteProposal for the configured controller with the channel,
\* the proposal id and the messages in non-decreasing order key; when it has
\* none (no list, or an empty list), its status becomes Executed and the
\* response holds no message.  Nothing else changes in the storage.
C26_CrossChainExecute ==
    \A id \in DOMAIN proposals, sender \in Senders :
        LET p == proposals[id]
            r == execute_proposal(Storage, height, sender, id)
        IN  (r.err = "Ok" /\ IsSome(p.ibc_channel)) =>
                IF ActionList(p) # <<>>
                THEN /\ r.st = [Storage EXCEPT !.proposals[id].status = "InProgress"]
                     /\ IsSome(config.ibc_controller)
                     /\ \E perm \in SortedArrangements(ActionList(p)) :
                            r.msgs = <<IbcExecuteProposalMsg(
                                           Unwrap(config.ibc_controller), Unwrap(p.ibc_channel), id,
                                           [i \in 1..Len(ActionList(p)) |-> ActionList(p)[perm[i]]])>>
                ELSE /\ r.st = [Storage EXCEPT !.proposals[id].status = "Executed"]
                     /\ r.msgs = <<>>

\* C27: in every reachable state the dry run of a list of messages succeeds,
\* leaves the storage as it is and answers the msg of every message of the
\* list, once each, in non-decreasing order key, followed by one last message:
\* CheckMessagesPassed addressed to the Assembly itself; CheckMessagesPassed
\* fails with MessagesCheckPassed for every caller, the Assembly included, and
\* leaves the storage as it is, so the transaction of a dry run fails; no step
\* commits a dry run or a CheckMessagesPassed.
C27_DryRun ==
    /\ [](/\ \A messages \in MessageLists :
                 LET r == check_messages(Storage, messages)
                 IN  /\ r.err = "Ok"
                     /\ r.st = Storage
                     /\ Len(r.msgs) = Len(messages) + 1
                     /\ r.msgs[Len(r.msgs)] = CheckMessagesPassedMsg
                     /\ r.msgs[Len(r.msgs)].contract_addr = Assembly
                     /\ \E perm \in SortedArrangements(messages) :
                            \A i \in 1..Len(messages) : r.msgs[i] = messages[perm[i]].msg
                     /\ Dispatch(r.st, r.msgs).err = "MessagesCheckPassed"
                     /\ Dispatch(r.st, r.msgs).st = Storage
          /\ \A sender \in Senders \cup {Assembly} :
                 /\ check_messages_passed(Storage, sender).err = "MessagesCheckPassed"
                 /\ check_messages_passed(Storage, sender).st = Storage
                 /\ check_messages_passed(Storage, sender).msgs = <<>>)
    /\ [][resp'.op \notin {"check_messages", "check_messages_passed"}]_vars

\* a state with a stored proposal in which the dry run of three messages given
\* out of order ends in the sentinel, which fails the transaction
C27_Witness ==
    /\ proposal_count = 1
    /\ \E messages \in MessageLists :
           /\ Len(messages) = 3
           /\ messages[1].order > messages[2].order
           /\ check_messages(Storage, messages).msgs[4] = CheckMessagesPassedMsg
           /\ check_messages(Storage, messages).msgs[1] = messages[2].msg
           /\ Dispatch(Storage, check_messages(Storage, messages).msgs).err
                  = "MessagesCheckPassed"

\* the parts of the voting power of `voter` for `proposal`
BalanceSnapshot(voter, proposal) == LedgerAtEnd(proposal.start_block - 1).balances[voter]
VestingLeft(voter) ==
    IF allocations[voter].amount # 0
    THEN allocations[voter].amount - allocations[voter].astro_withdrawn
    ELSE 0
EscrowPower(voter, proposal) ==
    Vxastro(BlockOfTime(proposal.start_time - 1)).voting_power[voter]
        + Vxastro(proposal.start_block).deposit[voter]
\* the contracts calc_voting_power asks
VoterSources ==
    {XastroToken, BuilderUnlock}
        \cup (IF IsSome(config.vxastro_token_addr) THEN {VxastroToken} ELSE {})

\* C28: for every stored proposal and every account, the voting power the
\* contract computes, when it computes one, is the account's xASTRO balance as
\* block start_block - 1 left it, plus the amount not yet withdrawn of its
\* allocation in the vesting ledger as it is now, plus, when an escrow is
\* configured and only then, its escrow voting power at start_time - 1 and its
\* escrow deposit at start_block: zero for an account that holds nothing.  The
\* computation fails when a contract it asks does not answer and when the sum
\* is above Uint128, and succeeds when the contracts answer and the sums stay
\* within Uint128.
C28_VoterPower ==
    \A id \in DOMAIN proposals, voter \in Users :
        LET p == proposals[id]
            r == calc_voting_power(config, voter, p)
            escrow == IF IsSome(config.vxastro_token_addr) THEN EscrowPower(voter, p) ELSE 0
            sum == BalanceSnapshot(voter, p) + VestingLeft(voter) + escrow
        IN  /\ r.err = "Ok" => r.val = sum
            /\ VoterSources \cap down # {} => r.err # "Ok"
            /\ sum > Uint128Max => r.err # "Ok"
            /\ (/\ VoterSources \cap down = {}
                /\ BalanceSnapshot(voter, p) + allocations[voter].amount <= Uint128Max
                /\ sum <= Uint128Max) => r.err = "Ok"
            /\ r.err \in {"Ok", "QueryFailed", "Overflow"}

\* carol has voted on a proposal of block VxDecayHeight, with an escrow
\* configured, after a mint to her in that block and a withdrawal from her
\* allocation: her vote weighs her balance before the mint, what is left of the
\* allocation and her escrow power and deposit
C28_Witness ==
    /\ resp.op = "cast_vote"
    /\ resp.sender = "carol"
    /\ IsSome(config.vxastro_token_addr)
    /\ proposals[resp.proposal_id].start_block = VxDecayHeight
    /\ LedgerAtEnd(VxDecayHeight).balances["carol"]
           # LedgerAtEnd(VxDecayHeight - 1).balances["carol"]
    /\ allocations["carol"].astro_withdrawn > 0
    /\ proposals[resp.proposal_id].for_power + proposals[resp.proposal_id].against_power
           = BalanceSnapshot("carol", proposals[resp.proposal_id]) + VestingLeft("carol")
               + EscrowPower("carol", proposals[resp.proposal_id])

\* the voting power of an account cannot be computed: a contract is down
VoterPowerQueryFails ==
    \E id \in DOMAIN proposals :
        /\ down # {}
        /\ calc_voting_power(config, "carol", proposals[id]).err = "QueryFailed"

\* the voting power of an account is above Uint128
VoterPowerOverflows ==
    \E id \in DOMAIN proposals :
        /\ down = {}
        /\ calc_voting_power(config, "carol", proposals[id]).err = "Overflow"

\* an account that holds nothing
VoterPowerZero ==
    \E id \in DOMAIN proposals :
        /\ calc_voting_power(config, "bob", proposals[id]).err = "Ok"
        /\ calc_voting_power(config, "bob", proposals[id]).val = 0

\* the parts of the total voting power for `proposal`
SupplySnapshot(proposal) == Supply(LedgerAtEnd(proposal.start_block - 1))
VestingRemaining ==
    SumOver([a \in Users |-> allocations[a].amount - allocations[a].astro_withdrawn], Users)
EscrowTotal(proposal) ==
    SumOver(Vxastro(BlockOfTime(proposal.start_time - 1)).voting_power, Users)

\* C29: for every stored proposal, the total voting power the contract
\* computes, when it computes one, is the xASTRO supply as block
\* start_block - 1 left it, plus what the vesting ledger holds that is not yet
\* withdrawn, as it is now, plus, when an escrow is configured and only then,
\* the total escrow voting power at start_time - 1.  The computation fails
\* when a contract it asks does not answer and when the sum is above Uint128,
\* and succeeds otherwise; when it fails, an End of an Active proposal past
\* its end_block fails, changes nothing and sends nothing,
\* and no step ends a proposal whose total voting power cannot be computed.
C29_TotalPower ==
    /\ [](\A id \in DOMAIN proposals :
              LET p == proposals[id]
                  r == calc_total_voting_power_at(config, p)
                  escrow == IF IsSome(config.vxastro_token_addr) THEN EscrowTotal(p) ELSE 0
                  sum == SupplySnapshot(p) + VestingRemaining + escrow
              IN  /\ r.err = "Ok" => r.val = sum
                  /\ VoterSources \cap down # {} => r.err # "Ok"
                  /\ sum > Uint128Max => r.err # "Ok"
                  /\ (VoterSources \cap down = {} /\ sum <= Uint128Max) => r.err = "Ok"
                  /\ (r.err # "Ok" /\ p.status = "Active" /\ height > p.end_block) =>
                         \A sender \in Senders :
                             /\ end_proposal(Storage, height, sender, id).err # "Ok"
                             /\ end_proposal(Storage, height, sender, id).st = Storage
                             /\ end_proposal(Storage, height, sender, id).msgs = <<>>)
    /\ [][\A id \in DOMAIN proposals \cap DOMAIN proposals' :
              (proposals[id].status = "Active" /\ proposals'[id].status # "Active") =>
                  calc_total_voting_power_at(config, proposals[id]).err = "Ok"]_vars

\* a proposal of block VxDecayHeight was ended, with an escrow configured,
\* after a mint in that block and a withdrawal from the vesting ledger
C29_Witness ==
    /\ resp.op = "end_proposal"
    /\ IsSome(config.vxastro_token_addr)
    /\ proposals[resp.proposal_id].start_block = VxDecayHeight
    /\ Supply(LedgerAtEnd(VxDecayHeight)) # Supply(LedgerAtEnd(VxDecayHeight - 1))
    /\ allocations["carol"].astro_withdrawn > 0
    /\ proposals[resp.proposal_id].status \in {"Passed", "Rejected"}

\* an End that fails because a contract is down
TotalPowerQueryFails ==
    \E id \in DOMAIN proposals :
        /\ proposals[id].status = "Active"
        /\ height > proposals[id].end_block
        /\ end_proposal(Storage, height, AnyCaller, id).err = "QueryFailed"

\* an End that fails because the total is above Uint128
TotalPowerOverflows ==
    \E id \in DOMAIN proposals :
        /\ proposals[id].status = "Active"
        /\ height > proposals[id].end_block
        /\ end_proposal(Storage, height, AnyCaller, id).err = "Overflow"

ScalarFields ==
    {"builder_unlock_addr", "proposal_voting_period", "proposal_effective_delay",
     "proposal_expiration_period", "proposal_required_deposit"}
RatioFields == {"proposal_required_quorum", "proposal_required_threshold"}
UpdateChoices == UpdateOptions \cup FieldUpdates \cup {NoUpdate}
OptionList(o) == IF IsSome(o) THEN Unwrap(o) ELSE <<>>

\* C30: the whitelist of the config never holds a link twice, and
\* whenever an UpdateConfig sent by the Assembly succeeds, every field
\* the message gives holds the given value (a ratio: the number its string
\* writes) and every other field of the config is as before; the whitelist
\* holds the links that were in it or were to add and are not to remove, so a
\* link to add and to remove is absent; the links that stay keep their order
\* and come before the added ones; and a whitelist without a link twice stays
\* without a link twice.
C30_UpdateConfigFields ==
    /\ NoDuplicates(config.whitelisted_links)
    /\ \A upd \in UpdateChoices :
           LET r == update_config(Storage, Assembly, upd)
               new == r.st.config
               old == config.whitelisted_links
               links == new.whitelisted_links
               add == OptionList(upd.whitelist_add)
               remove == OptionList(upd.whitelist_remove)
           IN  r.err = "Ok" =>
                   /\ \A f \in ScalarFields :
                          new[f] = IF IsSome(upd[f]) THEN Unwrap(upd[f]) ELSE config[f]
                   /\ \A f \in RatioFields :
                          IF IsSome(upd[f])
                          THEN new[f] * Unwrap(upd[f]).scale
                                   = Unwrap(upd[f]).units * DecimalFractional
                          ELSE new[f] = config[f]
                   /\ new.ibc_controller =
                          IF IsSome(upd.ibc_controller) THEN upd.ibc_controller
                          ELSE config.ibc_controller
                   /\ new.xastro_token_addr = config.xastro_token_addr
                   /\ new.vxastro_token_addr = config.vxastro_token_addr
                   /\ r.st = [Storage EXCEPT !.config = new]
                   /\ ToSet(links) = (ToSet(old) \cup ToSet(add)) \ ToSet(remove)
                   /\ SelectSeq(links, LAMBDA l : Contains(old, l)) = RetainNotIn(old, remove)
                   /\ \A i, j \in 1..Len(links) :
                          (Contains(old, links[j]) /\ ~Contains(old, links[i])) => j < i
                   /\ NoDuplicates(old) => NoDuplicates(links)

\* C31: a proposal enters the store with both tallies zero and both voter
\* lists empty; from one state to the next no tally of a stored proposal
\* decreases, and a tally changes only in a step that is an accepted CastVote
\* on that proposal: the caller was in neither voter list, the voting power
\* computed for the caller is not zero, and the step adds the caller to the
\* list and that power to the tally of the chosen side and leaves the other
\* side as it was.  So a tally is zero exactly when its voter list is empty
\* and is never below the number of its voters.
C31_TalliesGrowByVotes ==
    /\ [](\A id \in DOMAIN proposals :
              LET p == proposals[id]
              IN  /\ p.for_power >= Len(p.for_voters)
                  /\ p.against_power >= Len(p.against_voters)
                  /\ p.for_voters = <<>> => p.for_power = 0
                  /\ p.against_voters = <<>> => p.against_power = 0)
    /\ [][/\ \A id \in DOMAIN proposals' \ DOMAIN proposals :
               LET new == proposals'[id]
               IN  /\ new.for_power = 0
                   /\ new.against_power = 0
                   /\ Voters(new) = <<>>
          /\ \A id \in DOMAIN proposals \cap DOMAIN proposals' :
               LET old == proposals[id]
                   new == proposals'[id]
                   sender == resp'.sender
                   power == calc_voting_power(config, sender, old)
               IN  /\ new.for_power >= old.for_power
                   /\ new.against_power >= old.against_power
                   /\ (new.for_power # old.for_power \/ new.against_power # old.against_power)
                          => /\ resp' = Response("cast_vote", sender, id, <<>>)
                             /\ power.err = "Ok"
                             /\ power.val > 0
                             /\ ~Contains(Voters(old), sender)
                             /\ \E vote \in ProposalVoteOption :
                                    /\ cast_vote(Storage, height, sender, id, vote).err = "Ok"
                                    /\ new = WithVote(old, sender, vote, power.val)
                                    /\ Storage' = [Storage EXCEPT !.proposals[id] = new]]_vars

\* two accounts have voted for a proposal and one against it has not: the
\* tally for it holds the powers of both, and the last vote was accepted
C31_Witness ==
    /\ resp.op = "cast_vote"
    /\ resp.proposal_id \in DOMAIN proposals
    /\ Len(proposals[resp.proposal_id].for_voters) = 2
    /\ proposals[resp.proposal_id].against_voters = <<>>
    /\ proposals[resp.proposal_id].for_power > 2

\* C32: the tallies of a stored proposal are within Uint128.  A CastVote
\* whose power, added to the tally of its side, would be above Uint128Max
\* fails, changes nothing in the storage and sends nothing (with the error
\* Overflow when nothing else refuses the vote).  An End of a proposal whose
\* for_power + against_power is above Uint128Max fails, changes nothing, so
\* the proposal stays Active, and sends no refund; an End that succeeds decides
\* on the true sum; and no step takes a proposal with such tallies out of
\* Active.
C32_NoWrap ==
    /\ [](\A id \in DOMAIN proposals :
              LET p == proposals[id]
                  sum == p.for_power + p.against_power
                  total == calc_total_voting_power_at(config, p)
              IN  /\ p.for_power \in 0..Uint128Max
                  /\ p.against_power \in 0..Uint128Max
                  /\ \A sender \in Users, vote \in ProposalVoteOption :
                         LET r == cast_vote(Storage, height, sender, id, vote)
                             power == calc_voting_power(config, sender, p)
                             tally == IF vote = "For" THEN p.for_power ELSE p.against_power
                         IN  (power.err = "Ok" /\ tally + power.val > Uint128Max) =>
                                 /\ r.err # "Ok"
                                 /\ r.st = Storage
                                 /\ r.msgs = <<>>
                                 /\ (/\ p.status = "Active"
                                     /\ sender # p.submitter
                                     /\ height <= p.end_block
                                     /\ ~Contains(Voters(p), sender)) => r.err = "Overflow"
                  /\ \A sender \in Senders :
                         LET r == end_proposal(Storage, height, sender, id)
                         IN  /\ sum > Uint128Max =>
                                    /\ r.err # "Ok"
                                    /\ r.st = Storage
                                    /\ r.msgs = <<>>
                                    /\ (p.status = "Active" /\ height > p.end_block)
                                           => r.err = "Overflow"
                             /\ r.err = "Ok" =>
                                    /\ sum <= Uint128Max
                                    /\ r.st.proposals[id].status =
                                           ProposalResult(config,
                                                          ProposalQuorum(sum, total.val),
                                                          ProposalThreshold(p.for_power, sum)))
    /\ [][\A id \in DOMAIN proposals \cap DOMAIN proposals' :
              (/\ proposals[id].status = "Active"
               /\ proposals[id].for_power + proposals[id].against_power > Uint128Max) =>
                  /\ proposals'[id].status = "Active"
                  /\ resp' # Response("end_proposal", AnyCaller, id, resp'.messages)]_vars

\* the voting period of an Active proposal is over, its two tallies together
\* are above Uint128Max, and an End of it fails on the sum
C32_Witness ==
    \E id \in DOMAIN proposals :
        /\ proposals[id].status = "Active"
        /\ height > proposals[id].end_block
        /\ proposals[id].for_power > 0
        /\ proposals[id].against_power > 0
        /\ proposals[id].for_power + proposals[id].against_power > Uint128Max
        /\ end_proposal(Storage, height, AnyCaller, id).err = "Overflow"

\* a vote that fails because the tally of its side would be above Uint128Max
CastVoteOverflows ==
    \E id \in DOMAIN proposals, sender \in Users :
        /\ proposals[id].for_power > 0
        /\ cast_vote(Storage, height, sender, id, "For").err = "Overflow"
        /\ cast_vote(Storage, height, sender, id, "Against").err = "Ok"

\* C33: no stored proposal has the status Expired, so neither the query of
\* one proposal nor any page of the list returns a proposal with that status.
\* A removal past the execution window, which is where Expired is assigned,
\* succeeds and leaves the proposal out of the store; a callback of the
\* controller that reports Expired is refused; and a proposal that enters the
\* store enters it Active.
C33_ExpiredNeverStored ==
    /\ [](/\ \A id \in DOMAIN proposals : proposals[id].status # "Expired"
          /\ \A id \in 1..MaxProposals + 1 :
                 LET q == query_proposal(Storage, id)
                     r == remove_completed_proposal(Storage, height, AnyCaller, id)
                 IN  /\ q.err = "Ok" <=> id \in DOMAIN proposals
                     /\ q.err = "Ok" => q.val = proposals[id] /\ q.val.status # "Expired"
                     /\ (id \in DOMAIN proposals /\ WindowExpired(config, proposals[id], height))
                            => /\ r.err = "Ok"
                               /\ ~Stored(r.st, id)
                     /\ r.err = "Ok" => ~Stored(r.st, id)
                     /\ \A sender \in Senders :
                            update_ibc_proposal_status(Storage, sender, id, "Expired").err # "Ok"
          /\ \A start \in {None} \cup {Some(id) : id \in 1..MaxProposals + 1},
                limit \in {None, Some(1), Some(MAX_LIMIT + 1)} :
                 LET page == query_proposals(Storage, start, limit).proposal_list
                 IN  \A i \in DOMAIN page :
                         /\ page[i].status # "Expired"
                         /\ page[i] \in {proposals[id] : id \in DOMAIN proposals})
    /\ [][\A id \in DOMAIN proposals' \ DOMAIN proposals :
              proposals'[id].status = "Active"]_vars

\* a proposal that had passed, and whose Execute was refused as expired, has
\* just been removed: the query of it finds nothing and the list is empty
C33_Witness ==
    /\ resp.op = "remove_completed_proposal"
    /\ resp.proposal_id \in expired_seen
    /\ resp.proposal_id \notin DOMAIN proposals
    /\ query_proposal(Storage, resp.proposal_id).err = "NotFound"
    /\ query_proposals(Storage, None, None).proposal_list = <<>>

\* a message of the list is a token transfer to an account that submits
PaysSubmitter(messages) ==
    \E i \in DOMAIN messages :
        /\ messages[i].msg.kind = "Transfer"
        /\ messages[i].msg.recipient \in Submitters

\* the messages an Execute of `proposal` sends for local execution
OwnActions(proposal) == MapMsg(SortByOrder(ActionList(proposal)))

\* End succeeds at most once for a proposal id: it needs the status Active and
\* leaves another one, with the one refund; a status that is not Active never
\* becomes Active; and an id enters the store once, from the counter
EndAtMostOnce ==
    /\ [](\A id \in DOMAIN proposals :
              /\ id <= proposal_count
              /\ \A sender \in Senders :
                     LET p == proposals[id]
                         r == end_proposal(Storage, height, sender, id)
                     IN  r.err = "Ok" =>
                             /\ p.status = "Active"
                             /\ r.st.proposals[id].status \in {"Passed", "Rejected"}
                             /\ r.msgs = <<TransferMsg(config.xastro_token_addr, p.submitter,
                                                       p.deposit_amount)>>
                             /\ \A later \in height..MaxHeight :
                                    end_proposal(r.st, later, sender, id).err
                                        = "ProposalNotActive")
    /\ [][/\ proposal_count' >= proposal_count
          /\ \A id \in DOMAIN proposals' \ DOMAIN proposals :
                 id = proposal_count + 1 /\ proposal_count' = id
          /\ \A id \in DOMAIN proposals \cap DOMAIN proposals' :
                 proposals[id].status # "Active" => proposals'[id].status # "Active"]_vars

\* C34 as stated: End succeeds at most once for a proposal id, and a step
\* whose response carries a token transfer to a submitter is an End.
C34_TransferOnlyByEnd ==
    /\ EndAtMostOnce
    /\ [][(resp' # resp /\ PaysSubmitter(resp'.messages)) =>
              resp'.op = "end_proposal"]_vars

\* C34: End succeeds at most once for a proposal id, so the deposit of a
\* proposal is refunded at most once.  A step whose response carries a token
\* transfer to a submitter is an End of an Active proposal, with the refund of
\* its deposit as the one message, or an Execute of a Passed proposal without a
\* channel, with the actions of that proposal as the messages; CastVote,
\* RemoveCompletedProposal and the controller's callback send nothing.
C34_RefundOnce ==
    /\ EndAtMostOnce
    /\ [](\A id \in DOMAIN proposals, sender \in Senders :
              /\ \A voter \in Users, vote \in ProposalVoteOption :
                     cast_vote(Storage, height, voter, id, vote).msgs = <<>>
              /\ remove_completed_proposal(Storage, height, sender, id).msgs = <<>>
              /\ \A status \in {"Executed", "Failed"} :
                     update_ibc_proposal_status(Storage, sender, id, status).msgs = <<>>)
    /\ [][(resp' # resp /\ PaysSubmitter(resp'.messages)) =>
              LET id == resp'.proposal_id
              IN  /\ id \in DOMAIN proposals \cap DOMAIN proposals'
                  /\ \/ /\ resp'.op = "end_proposal"
                        /\ proposals[id].status = "Active"
                        /\ proposals'[id].status \in {"Passed", "Rejected"}
                        /\ resp'.messages = DepositRefund(config, proposals[id])
                     \/ /\ resp'.op = "execute_proposal"
                        /\ proposals[id].status = "Passed"
                        /\ proposals'[id].status = "Executed"
                        /\ ~IsSome(proposals[id].ibc_channel)
                        /\ resp'.messages = OwnActions(proposals[id])]_vars

\* a proposal whose action pays its submitter was ended, which refunded the
\* deposit, and has just been executed, which sent the payment; an End of it
\* is refused
C34_Witness ==
    /\ resp.op = "execute_proposal"
    /\ PaysSubmitter(resp.messages)
    /\ proposals[resp.proposal_id].status = "Executed"
    /\ end_proposal(Storage, height, AnyCaller, resp.proposal_id).err = "ProposalNotActive"

\* C35: a step that deletes a proposal from the store deletes one that was
\* ended, so one whose status is no longer Active and whose deposit went back
\* with the End; and a RemoveCompletedProposal of an Active proposal is refused
\* at every height.
C35_RemovedAfterEnd ==
    /\ [](\A id \in DOMAIN proposals, later \in height..MaxHeight :
              proposals[id].status = "Active" =>
                  remove_completed_proposal(Storage, later, AnyCaller, id).err
                      = "ProposalNotCompleted")
    /\ [][\A id \in DOMAIN proposals \ DOMAIN proposals' :
              proposals[id].status # "Active"]_vars

\* a proposal that nobody ended is past its execution window: still Active,
\* its deposit not refunded, and a removal of it is accepted
RemovableWithoutEnd ==
    \E id \in DOMAIN proposals :
        /\ proposals[id].status = "Active"
        /\ proposals[id].deposit_amount > 0
        /\ remove_completed_proposal(Storage, height, AnyCaller, id).err = "Ok"
        /\ end_proposal(remove_completed_proposal(Storage, height, AnyCaller, id).st,
                        height, AnyCaller, id).err = "NotFound"

C37_InProgressHasChannel ==
    /\ [](\A id \in DOMAIN proposals :
              LET p == proposals[id]
              IN  /\ p.status \in {"InProgress", "Failed"} =>
                         IsSome(p.ibc_channel) /\ IsSome(p.messages)
                  /\ ~IsSome(p.ibc_channel) =>
                         /\ p.status \notin {"InProgress", "Failed"}
                         /\ \A sender \in Senders :
                                LET r == execute_proposal(Storage, height, sender, id)
                                IN  r.err = "Ok" => r.st.proposals[id].status = "Executed"
                         /\ \A sender \in Senders, status \in ProposalStatus :
                                LET r == update_ibc_proposal_status(Storage, sender, id, status)
                                IN  /\ r.err \in {"NotUpdatedProposalStatus",
                                                  "InvalidIBCController"}
                                    /\ r.st = Storage)
    /\ [][\A id \in DOMAIN proposals \cap DOMAIN proposals' :
              /\ proposals'[id].ibc_channel = proposals[id].ibc_channel
              /\ proposals'[id].messages = proposals[id].messages]_vars

\* the controller has just reported the failure of a proposal that was
\* forwarded to it: the proposal is Failed, with its channel and its messages
C37_Witness ==
    /\ resp.op = "ibc_proposal_completed"
    /\ resp.proposal_id \in DOMAIN proposals
    /\ proposals[resp.proposal_id].status = "Failed"
    /\ IsSome(proposals[resp.proposal_id].ibc_channel)
    /\ IsSome(proposals[resp.proposal_id].messages)

\* a proposal without a channel was executed, and the callback of the
\* configured controller that names it is rejected
LocalCallbackRejected ==
    \E id \in DOMAIN proposals :
        /\ ~IsSome(proposals[id].ibc_channel)
        /\ proposals[id].status = "Executed"
        /\ IsSome(config.ibc_controller)
        /\ update_ibc_proposal_status(Storage, Unwrap(config.ibc_controller), id, "Failed").err
               = "NotUpdatedProposalStatus"

\* C38: for a stored proposal, at no block height are a CastVote and an End
\* both accepted: an accepted vote has height <= end_block and an accepted End
\* has height > end_block.  An End changes the status only, so it decides on
\* the tallies as they are; and once the status is no longer Active, a
\* CastVote is rejected at every height and no step changes for_power,
\* against_power, for_voters or against_voters.
C38_VoteThenEnd ==
    /\ [](\A id \in DOMAIN proposals, h \in 1..MaxHeight :
              LET p == proposals[id]
                  end == end_proposal(Storage, h, AnyCaller, id)
              IN  /\ end.err = "Ok" =>
                         /\ h > p.end_block
                         /\ end.st.proposals[id] =
                                [p EXCEPT !.status = end.st.proposals[id].status]
                         /\ end.st.proposals[id].status \in {"Passed", "Rejected"}
                  /\ \A voter \in Users, vote \in ProposalVoteOption :
                         LET cast == cast_vote(Storage, h, voter, id, vote)
                         IN  /\ cast.err = "Ok" => h <= p.end_block
                             /\ ~(cast.err = "Ok" /\ end.err = "Ok")
                             /\ p.status # "Active" => cast.err = "ProposalNotActive"
                             /\ end.err = "Ok" =>
                                    \A later \in h..MaxHeight :
                                        cast_vote(end.st, later, voter, id, vote).err
                                            = "ProposalNotActive")
    /\ [][\A id \in DOMAIN proposals \cap DOMAIN proposals' :
              proposals[id].status # "Active" =>
                  /\ proposals'[id].status # "Active"
                  /\ proposals'[id].for_power = proposals[id].for_power
                  /\ proposals'[id].against_power = proposals[id].against_power
                  /\ proposals'[id].for_voters = proposals[id].for_voters
                  /\ proposals'[id].against_voters = proposals[id].against_voters]_vars

\* a proposal with votes was just ended, and the vote of an account with
\* voting power that has not voted is rejected because the proposal is not
\* Active
C38_Witness ==
    /\ resp.op = "end_proposal"
    /\ resp.proposal_id \in DOMAIN proposals
    /\ proposals[resp.proposal_id].for_voters # <<>>
    /\ proposals[resp.proposal_id].status \in {"Passed", "Rejected"}
    /\ \E voter \in Users :
           /\ ~Contains(Voters(proposals[resp.proposal_id]), voter)
           /\ voter # proposals[resp.proposal_id].submitter
           /\ calc_voting_power(config, voter, proposals[resp.proposal_id]).val > 0
           /\ cast_vote(Storage, height, voter, resp.proposal_id, "Against").err
                  = "ProposalNotActive"

====
